---- MODULE Spec2Model ----
(***************************************************************************)
(* The UEC_PV estimator of uecpv/uec_.py as a state machine.               *)
(*                                                                         *)
(* State: the constructor parameters (cfg), the attributes that fit and    *)
(* transform store on the estimator (obj), the record of the most recent   *)
(* call (last: the steps it executed, in order, and how it ended) and the  *)
(* history of fit calls (ghost).  One action per public method.            *)
(*                                                                         *)
(* The numerical kernels that fit calls (the sampling schedule and the two *)
(* optimizer passes, the soft assignment and its target, the fuzzy union,  *)
(* the clipped updates) are modelled on their own, on small exact inputs,  *)
(* with the state of the kernel under study in kern.                       *)
(*                                                                         *)
(* Arrays are modelled by their shape and by the identity of their         *)
(* content; floats by integers that keep every comparison the code makes.  *)
(***************************************************************************)
EXTENDS Integers, Sequences, FiniteSets, TLC

VARIABLES cfg, obj, last, ghost, kern

vars == <<cfg, obj, last, ghost, kern>>

(***************************************************************************)
(* Bounds of the model and constants of the program.                       *)
(***************************************************************************)
\* largest row count of the small data sets the calls are given
MaxRows == 3

\* fit: "if X.shape[0] < 4096" chooses the all-pairs path
SmallDataLimit == 4096

\* simplicial_set_embedding: automatic epoch budget and its size threshold
AutoEpochsSmall == 500
AutoEpochsLarge == 200
AutoEpochsLimit == 10000

\* optimize_layout overrides its n_epochs argument: "n_epochs=10"
JointEpochs == 10

\* _validate_parameters: "self.n_epochs <= 10"
MinEpochsExclusive == 10

\* optimize_layout: the parameters that have no default value
OptimizeLayoutRequired == 14

\* transform: the epoch budget when n_epochs is None, and its size threshold
TransformEpochsSmall == 100
TransformEpochsLarge == 30

\* the positional arguments each caller of optimize_layout passes
FitCallPositional == 17
TransformCallPositional == 13

(***************************************************************************)
(* Python values.                                                          *)
(***************************************************************************)
\* a number with its Python type; None is a value of its own
PyInt(n)   == [ty |-> "int", v |-> n]
PyFloat(n) == [ty |-> "float", v |-> n]
PyNone     == [ty |-> "None", v |-> 0]

\* isinstance(x, int)
IsInstanceInt(x) == x.ty = "int"

(***************************************************************************)
(* Data sets: the shape and the identity of the content of an array.       *)
(***************************************************************************)
NoData == [id |-> "none", rows |-> 0, sparse |-> FALSE]

\* the arrays the calls are given: a single row, two dense arrays of different
\* content, a CSR matrix, a dense array on the large-data path, and one beyond
\* the size threshold of the automatic epoch budget
Data ==
    {[id |-> "one",   rows |-> 1,                   sparse |-> FALSE],
     [id |-> "dense", rows |-> MaxRows,             sparse |-> FALSE],
     [id |-> "other", rows |-> MaxRows - 1,         sparse |-> FALSE],
     [id |-> "csr",   rows |-> MaxRows,             sparse |-> TRUE],
     [id |-> "large", rows |-> SmallDataLimit,      sparse |-> FALSE],
     [id |-> "huge",  rows |-> AutoEpochsLimit + 1, sparse |-> FALSE]}

\* joblib.hash of an array: a function of its content (shape included)
Hash(X) == <<X.id, X.rows, X.sparse>>

NoHash == <<"none", 0, FALSE>>

\* the label array y of fit: None (0) or its length
YValues(X) == {0, X.rows, X.rows + 1}

(***************************************************************************)
(* Constructor parameters (UEC_PV.__init__).                               *)
(***************************************************************************)
\* init: a string, an ndarray (of a width and a row count) or anything else
InitStr(name)     == [kind |-> "str", name |-> name, width |-> 0, rows |-> 0]
InitArray(w, r)   == [kind |-> "ndarray", name |-> "", width |-> w, rows |-> r]
InitOther         == [kind |-> "other", name |-> "", width |-> 0, rows |-> 0]

\* a configuration every check of _validate_parameters accepts
BaseConfig ==
    [n_neighbors          |-> 2,
     n_components         |-> PyInt(2),
     metric               |-> "euclidean",
     n_epochs             |-> PyNone,
     n_clusters           |-> PyInt(2),
     learning_rate        |-> 1,
     init                 |-> InitStr("spectral"),
     min_dist             |-> 0,
     spread               |-> 1,
     set_op_mix_ratio     |-> 1,
     local_connectivity   |-> 1,
     repulsion_strength   |-> 1,
     negative_sample_rate |-> 5,
     ab_given             |-> FALSE,
     target_n_neighbors   |-> -1,
     target_metric        |-> "categorical"]

\* the values a caller may give each parameter, valid and invalid
ParamValues(f) ==
    CASE f = "n_neighbors"          -> {1, 2, SmallDataLimit}
      [] f = "n_components"         -> {PyInt(0), PyInt(1), PyInt(2), PyFloat(2)}
      [] f = "metric"               -> {"euclidean", "precomputed",
                                        "unknown_name", "not_str_or_callable"}
      [] f = "n_epochs"             -> {PyNone, PyInt(MinEpochsExclusive),
                                        PyInt(MinEpochsExclusive + 1),
                                        PyFloat(MinEpochsExclusive + 10)}
      [] f = "n_clusters"           -> {PyNone, PyInt(-1), PyInt(0), PyInt(2),
                                        PyInt(MaxRows), PyFloat(2)}
      [] f = "learning_rate"        -> {-1, 0, 1}
      [] f = "init"                 -> {InitStr("spectral"), InitStr("random"),
                                        InitStr("pca"), InitArray(2, MaxRows),
                                        InitArray(3, MaxRows), InitOther}
      [] f = "min_dist"             -> {-1, 0, 1, 2}
      [] f = "spread"               -> {-1, 0, 1}
      [] f = "set_op_mix_ratio"     -> {-1, 0, 1, 2}
      [] f = "local_connectivity"   -> {0, 1}
      [] f = "repulsion_strength"   -> {-1, 0, 1}
      [] f = "negative_sample_rate" -> {-1, 0, 5}
      [] f = "ab_given"             -> BOOLEAN
      [] f = "target_n_neighbors"   -> {-1, 1, 2}
      [] f = "target_metric"        -> {"categorical", "l2"}

\* the configurations of the model: BaseConfig with one parameter changed, and
\* the combinations that only matter together
Configs ==
    UNION {{[BaseConfig EXCEPT ![f] = v] : v \in ParamValues(f)} :
              f \in DOMAIN BaseConfig}
        \cup {[BaseConfig EXCEPT !.spread = 0, !.ab_given = TRUE],
              [BaseConfig EXCEPT !.spread = 0, !.min_dist = -1],
              [BaseConfig EXCEPT !.n_components = PyInt(3),
                                 !.init = InitArray(3, MaxRows)],
              [BaseConfig EXCEPT !.n_neighbors = SmallDataLimit,
                                 !.n_epochs = PyInt(MinEpochsExclusive + 1)]}

(***************************************************************************)
(* Attributes of the estimator.  An attribute that was never assigned is   *)
(* Unset...: reading it raises AttributeError.                             *)
(***************************************************************************)
NoArray == [kind |-> "unset", rows |-> 0, cols |-> 0, src |-> NoHash]

\* an array the estimator computed: what it holds, its shape and the content
\* of the data it was computed from
Array(kind, r, c, X) == [kind |-> kind, rows |-> r, cols |-> c, src |-> Hash(X)]

NoGraph == [set |-> FALSE, rows |-> 0, k_search |-> 0, k_smooth |-> 0,
            src |-> NoHash]

NewObject ==
    [raw_data      |-> NoData,    \* _raw_data
     ab_set        |-> FALSE,     \* _a, _b
     initial_alpha |-> 0,         \* _initial_alpha
     alpha_set     |-> FALSE,
     n_neighbors   |-> 0,         \* _n_neighbors (0: never assigned)
     sparse_data   |-> "unset",   \* _sparse_data
     small_data    |-> "unset",   \* _small_data
     search_set    |-> FALSE,     \* _search, _random_init, _tree_init
     graph         |-> NoGraph,   \* graph_
     embedding     |-> NoArray,   \* embedding_
     y_pred        |-> NoArray,   \* y_pred
     centroids     |-> NoArray,   \* centroids
     input_hash    |-> NoHash]    \* _input_hash

(***************************************************************************)
(* A call in progress: the estimator, the steps executed so far, the       *)
(* warnings issued, and how the call ended ("run": it has not ended).      *)
(***************************************************************************)
Step(op, k) == [op |-> op, k |-> k]

NoRet == [embedding |-> NoArray, y_pred |-> NoArray, centroids |-> NoArray]

Begin(o) == [obj |-> o, steps |-> <<>>, warns |-> {}, end |-> "run",
             ret |-> NoRet]

\* the statement F runs only when the call has not ended
Then(c, F(_)) == IF c.end = "run" THEN F(c) ELSE c

Raise(c, e)   == [c EXCEPT !.end = e]
Did(c, op, k) == [c EXCEPT !.steps = Append(@, Step(op, k))]
Warn(c, w)    == [c EXCEPT !.warns = @ \cup {w}]

(***************************************************************************)
(* _validate_parameters: the first check that fails, in the code's order,  *)
(* or "none".  initial_alpha is self._initial_alpha.                       *)
(***************************************************************************)
validate_parameters(p, initial_alpha) ==
    CASE p.set_op_mix_ratio < 0 \/ p.set_op_mix_ratio > 1
            -> "ValueError: set_op_mix_ratio must be between 0.0 and 1.0"
      [] p.repulsion_strength < 0
            -> "ValueError: repulsion_strength cannot be negative"
      [] p.min_dist > p.spread
            -> "ValueError: min_dist must be less than or equal to spread"
      [] p.min_dist < 0
            -> "ValueError: min_dist must be greater than 0.0"
      [] p.init.kind \notin {"str", "ndarray"}
            -> "ValueError: init must be a string or ndarray"
      [] p.init.kind = "str" /\ p.init.name \notin {"spectral", "random"}
            -> "ValueError: string init values must be spectral or random"
      [] p.init.kind = "ndarray" /\ p.init.width # p.n_components.v
            -> "ValueError: init ndarray must match n_components value"
      [] p.metric = "not_str_or_callable"
            -> "ValueError: metric must be string or callable"
      [] p.negative_sample_rate < 0
            -> "ValueError: negative sample rate must be positive"
      [] initial_alpha < 0
            -> "ValueError: learning_rate must be positive"
      [] p.n_neighbors < 2
            -> "ValueError: n_neighbors must be greater than 2"
      [] p.target_n_neighbors < 2 /\ p.target_n_neighbors # -1
            -> "ValueError: target_n_neighbors must be greater than 2"
      [] ~IsInstanceInt(p.n_components)
            -> "ValueError: n_components must be an int"
      [] p.n_components.v < 1
            -> "ValueError: n_components must be greater than 0"
      [] p.n_epochs # PyNone
           /\ (p.n_epochs.v <= MinEpochsExclusive \/ ~IsInstanceInt(p.n_epochs))
            -> "ValueError: n_epochs must be a positive integer larger than 10"
      [] OTHER -> "none"

\* the errors _validate_parameters raises
ValidationErrors ==
    {"ValueError: set_op_mix_ratio must be between 0.0 and 1.0",
     "ValueError: repulsion_strength cannot be negative",
     "ValueError: min_dist must be less than or equal to spread",
     "ValueError: min_dist must be greater than 0.0",
     "ValueError: init must be a string or ndarray",
     "ValueError: string init values must be spectral or random",
     "ValueError: init ndarray must match n_components value",
     "ValueError: metric must be string or callable",
     "ValueError: negative sample rate must be positive",
     "ValueError: learning_rate must be positive",
     "ValueError: n_neighbors must be greater than 2",
     "ValueError: target_n_neighbors must be greater than 2",
     "ValueError: n_components must be an int",
     "ValueError: n_components must be greater than 0",
     "ValueError: n_epochs must be a positive integer larger than 10"}

(***************************************************************************)
(* find_ab_params: curve_fit on 300 samples of the offset exponential over *)
(* linspace(0, 3 * spread).  With spread = 0 and min_dist = 0 every sample *)
(* is 0/0 and curve_fit rejects the non-finite data.  With spread < 0 the  *)
(* abscissae are negative: curve() takes a non-integer power of a negative *)
(* base as soon as the least-squares routine perturbs b, every residual is *)
(* NaN, and the routine (cf) either exhausts its evaluation budget, which  *)
(* curve_fit reports as RuntimeError, or returns.  Otherwise (a, b).       *)
(***************************************************************************)
find_ab_params(spread, min_dist, cf) ==
    IF spread = 0 /\ min_dist = 0
    THEN "ValueError: array must not contain infs or NaNs"
    ELSE IF spread < 0 /\ cf = "gives_up"
    THEN "RuntimeError: Optimal parameters not found"
    ELSE "none"

(***************************************************************************)
(* fuzzy_simplicial_set(X, n_neighbors, ..., knn_indices, knn_dists): the  *)
(* neighbour search runs only when the caller passes no neighbours         *)
(* (knn_k = 0); the calibration target is always the n_neighbors argument. *)
(***************************************************************************)
fuzzy_simplicial_set(c, n_neighbors, knn_k) ==
    LET c1 == IF knn_k = 0 THEN Did(c, "nearest_neighbors", n_neighbors) ELSE c
        c2 == Did(c1, "smooth_knn_dist", n_neighbors)
        c3 == Did(c2, "compute_membership_strengths", 0)
    IN  Did(c3, "fuzzy_union", 0)

\* the graph fuzzy_simplicial_set returns
GraphOf(X, k_search, k_smooth) ==
    [set |-> TRUE, rows |-> X.rows, k_search |-> k_search, k_smooth |-> k_smooth,
     src |-> Hash(X)]

(***************************************************************************)
(* fit, statement by statement.                                            *)
(***************************************************************************)
\* lines 1890-1925: store the data, the curve parameters, the learning rate
fit_prologue(c, p, X, cf) ==
    LET c1 == [c EXCEPT !.obj.raw_data = X]
        ab == IF p.ab_given THEN "none"
              ELSE find_ab_params(p.spread, p.min_dist, cf)
    IN  IF ab # "none" THEN Raise(c1, ab)
        ELSE [c1 EXCEPT !.obj.ab_set = TRUE,
                        !.obj.initial_alpha = p.learning_rate,
                        !.obj.alpha_set = TRUE]

\* line 1927
fit_validate(c, p) ==
    LET e == validate_parameters(p, c.obj.initial_alpha)
    IN  IF e # "none" THEN Raise(c, e) ELSE c

\* the size check without the early "return self" of the single-row branch
fit_size_check_no_return(c, p, X) ==
    IF X.rows <= p.n_neighbors
    THEN LET c1 == IF X.rows = 1
                   THEN [c EXCEPT !.obj.embedding =
                                      Array("zeros", 1, p.n_components.v, X)]
                   ELSE c
         IN  [Warn(c1, "n_neighbors is larger than the dataset size")
                 EXCEPT !.obj.n_neighbors = X.rows - 1]
    ELSE [c EXCEPT !.obj.n_neighbors = p.n_neighbors]

\* lines 1932-1946: a single row returns a zero embedding at once; fewer rows
\* than neighbours clamps the neighbour count with a warning
fit_size_check(c, p, X) ==
    IF X.rows <= p.n_neighbors
    THEN IF X.rows = 1
         THEN [c EXCEPT !.obj.embedding = Array("zeros", 1, p.n_components.v, X),
                        !.end = "return"]
         ELSE [Warn(c, "n_neighbors is larger than the dataset size")
                  EXCEPT !.obj.n_neighbors = X.rows - 1]
    ELSE [c EXCEPT !.obj.n_neighbors = p.n_neighbors]

\* lines 1948-1953
fit_sparse_flag(c, X) ==
    [c EXCEPT !.obj.sparse_data = IF X.sparse THEN "true" ELSE "false"]

\* lines 1960-1978: all pairwise distances, then the graph on them
fit_small_data(c, p, X) ==
    LET c1 == [c EXCEPT !.obj.small_data = "true"]
    IN  IF p.metric = "unknown_name"
        THEN Raise(c1, "ValueError: Unknown metric")
        ELSE LET c2 == Did(c1, "pairwise_distances", 0)
                 c3 == fuzzy_simplicial_set(c2, c2.obj.n_neighbors, 0)
             IN  [c3 EXCEPT !.obj.graph =
                     GraphOf(X, c2.obj.n_neighbors, c2.obj.n_neighbors)]

\* lines 1979-2047: approximate neighbours, the graph on them, the search state
fit_large_data(c, p, X) ==
    LET c1 == [c EXCEPT !.obj.small_data = "false"]
    IN  IF p.metric = "unknown_name"
        THEN Raise(c1, "ValueError: Metric is neither callable, nor a recognised string")
        ELSE LET c2 == Did(c1, "nearest_neighbors", c1.obj.n_neighbors)
                 c3 == fuzzy_simplicial_set(c2, p.n_neighbors, c1.obj.n_neighbors)
                 c4 == [c3 EXCEPT !.obj.graph =
                           GraphOf(X, c1.obj.n_neighbors, p.n_neighbors)]
             IN  IF p.metric = "precomputed"
                 THEN Warn(c4, "transform will be unavailable for new data")
                 ELSE [c4 EXCEPT !.obj.search_set = TRUE]

fit_graph(c, p, X) ==
    IF X.rows < SmallDataLimit
    THEN fit_small_data(c, p, X)
    ELSE fit_large_data(c, p, X)

\* lines 2049-2122: y is its length, 0 for None
fit_target(c, p, X, y) ==
    IF y = 0 THEN c
    ELSE IF X.rows # y
    THEN Raise(c, "ValueError: Length of x and y must be equal")
    ELSE IF p.target_metric = "categorical"
    THEN Did(c, "categorical_simplicial_set_intersection", 0)
    ELSE LET tk == IF p.target_n_neighbors = -1 THEN c.obj.n_neighbors
                   ELSE p.target_n_neighbors
             c1 == IF y < SmallDataLimit THEN Did(c, "pairwise_distances", 0) ELSE c
             c2 == fuzzy_simplicial_set(c1, tk, 0)
             c3 == Did(c2, "general_simplicial_set_intersection", 0)
         IN  Did(c3, "reset_local_connectivity", 0)

(***************************************************************************)
(* KMeans(n_clusters).fit_predict(embedding) of scikit-learn: it needs a   *)
(* positive integer that does not exceed the number of points.             *)
(***************************************************************************)
KMeansAccepts(n_clusters, rows) ==
    /\ IsInstanceInt(n_clusters)
    /\ n_clusters.v >= 1
    /\ n_clusters.v <= rows

\* a call of optimize_layout binds its arguments only when every parameter
\* without a default receives one
optimize_layout_binds(positional) == positional >= OptimizeLayoutRequired

(***************************************************************************)
(* simplicial_set_embedding (lines 1292-1446).  ub is what an out-of-bounds *)
(* row access of the compiled optimizer does: "crash" or "continue".       *)
(***************************************************************************)
\* the budget chosen by size alone, whatever the caller asked for
embedding_epochs_auto(n_epochs, rows) ==
    IF rows <= AutoEpochsLimit THEN AutoEpochsSmall ELSE AutoEpochsLarge

\* lines 1314-1319: the epoch budget of the manifold pass
embedding_epochs(n_epochs, rows) ==
    IF n_epochs <= 0
    THEN IF rows <= AutoEpochsLimit THEN AutoEpochsSmall ELSE AutoEpochsLarge
    ELSE n_epochs

\* lines 1326-1366: the rows of the initial layout
initial_layout_rows(init, rows) ==
    IF init.kind = "ndarray" THEN init.rows ELSE rows

simplicial_set_embedding(c, p, X, n_epochs, ub) ==
    LET n      == c.obj.graph.rows
        epochs == embedding_epochs(n_epochs, n)
        erows  == initial_layout_rows(p.init, n)
        c1 == Did(c, "prune_graph", epochs)
        c2 == Did(c1, "initial_layout", erows)
        c3 == Did(c2, "make_epochs_per_sample", epochs)
    IN  IF erows < n /\ ub = "crash"
        THEN Raise(c3, "Crash: out-of-bounds row of the initial layout")
        ELSE
        LET c4 == Did(c3, "init_optimize_layout", epochs)
        IN  IF ~KMeansAccepts(p.n_clusters, erows)
            THEN Raise(Did(c4, "KMeans", 0), "Error: KMeans rejects n_clusters")
            ELSE
            LET c5 == Did(c4, "KMeans", p.n_clusters.v)
            IN  IF ~optimize_layout_binds(FitCallPositional)
                THEN Raise(c5, "TypeError: optimize_layout missing a required argument")
                ELSE
                LET c6 == Did(c5, "optimize_layout", JointEpochs)
                    c7 == Did(c6, "S_argmax", 0)
                IN  [c7 EXCEPT
                       !.ret = [embedding |-> Array("embedding", erows,
                                                    p.n_components.v, X),
                                y_pred    |-> Array("labels", erows,
                                                    p.n_clusters.v, X),
                                centroids |-> Array("centroids", p.n_clusters.v,
                                                    p.n_components.v, X)]]

\* lines 2124-2152: the returned triple is stored only when the call returns
fit_embedding(c, p, X, ub) ==
    LET n_epochs == IF p.n_epochs = PyNone THEN 0 ELSE p.n_epochs.v
        c1 == simplicial_set_embedding(c, p, c.obj.raw_data, n_epochs, ub)
    IN  IF c1.end # "run" THEN c1
        ELSE [c1 EXCEPT !.obj.embedding = c1.ret.embedding,
                        !.obj.y_pred    = c1.ret.y_pred,
                        !.obj.centroids = c1.ret.centroids,
                        !.ret = NoRet]

\* the hash stored by the first fit only
fit_hash_once(c) ==
    [Did(c, "hash", 0) EXCEPT !.obj.input_hash =
                                  IF @ = NoHash THEN Hash(c.obj.raw_data) ELSE @,
                              !.end = "return"]

\* lines 2157-2159
fit_hash(c) ==
    [Did(c, "hash", 0) EXCEPT !.obj.input_hash = Hash(c.obj.raw_data),
                              !.end = "return"]

\* UEC_PV.fit(X, y)
fit(o, p, X, y, ub, cf) ==
    LET c0 == fit_prologue(Begin(o), p, X, cf)
        c1 == Then(c0, LAMBDA c : fit_validate(c, p))
        c2 == Then(c1, LAMBDA c : fit_size_check(c, p, X))
        c3 == Then(c2, LAMBDA c : fit_sparse_flag(c, X))
        c4 == Then(c3, LAMBDA c : fit_graph(c, p, X))
        c5 == Then(c4, LAMBDA c : fit_target(c, p, X, y))
        c6 == Then(c5, LAMBDA c : fit_embedding(c, p, X, ub))
    IN  Then(c6, fit_hash)

\* reading self.embedding_, self.y_pred, self.centroids
HasAttributes(o) ==
    /\ o.embedding.kind # "unset"
    /\ o.y_pred.kind # "unset"
    /\ o.centroids.kind # "unset"

\* line 2183: "return self.embedding_, self.y_pred, self.centroids" after the
\* call c of fit
return_attributes(c) ==
    IF c.end # "return" THEN c
    ELSE IF ~HasAttributes(c.obj)
    THEN Raise(c, "AttributeError: object has no attribute y_pred")
    ELSE [c EXCEPT !.ret = [embedding |-> c.obj.embedding,
                            y_pred    |-> c.obj.y_pred,
                            centroids |-> c.obj.centroids]]

\* UEC_PV.fit_transform(X, y) (lines 2182-2183)
fit_transform(o, p, X, y, ub, cf) ==
    return_attributes(fit(o, p, X, y, ub, cf))

(***************************************************************************)
(* UEC_PV.transform(X) (lines 2185-2350).  ub as in fit.                   *)
(***************************************************************************)
\* lines 2199-2211: the single-sample error, then the hash short circuit
transform_short_circuit(c, X) ==
    IF c.obj.embedding.kind = "unset"
    THEN Raise(c, "AttributeError: object has no attribute embedding_")
    ELSE IF c.obj.embedding.rows = 1
    THEN Raise(c, "ValueError: Transform unavailable when model was fit with only a single data sample")
    ELSE IF c.obj.input_hash = NoHash
    THEN Raise(c, "AttributeError: object has no attribute _input_hash")
    ELSE IF Hash(X) = c.obj.input_hash
    THEN [Did(c, "hash", 0) EXCEPT !.ret.embedding = c.obj.embedding,
                                   !.end = "return"]
    ELSE Did(c, "hash", 0)

\* the checks without the one of the precomputed metric
transform_supported_no_precomputed(c, p, X) ==
    IF c.obj.sparse_data = "unset"
    THEN Raise(c, "AttributeError: object has no attribute _sparse_data")
    ELSE IF c.obj.sparse_data = "true"
    THEN Raise(c, "ValueError: Transform not available for sparse input")
    ELSE IF X.sparse
    THEN Raise(c, "TypeError: A sparse matrix was passed, but dense data is required")
    ELSE c

\* lines 2213-2223
transform_supported(c, p, X) ==
    IF c.obj.sparse_data = "unset"
    THEN Raise(c, "AttributeError: object has no attribute _sparse_data")
    ELSE IF c.obj.sparse_data = "true"
    THEN Raise(c, "ValueError: Transform not available for sparse input")
    ELSE IF p.metric = "precomputed"
    THEN Raise(c, "ValueError: Transform of new data not available for precomputed metric")
    ELSE IF X.sparse
    THEN Raise(c, "TypeError: A sparse matrix was passed, but dense data is required")
    ELSE c

\* lines 2231-2276: the neighbours of the new points among the fitted points
transform_neighbors(c, p, X) ==
    IF c.obj.small_data = "true"
    THEN LET c1 == Did(c, "pairwise_distances", 0)
         IN  IF c.obj.n_neighbors >= c.obj.raw_data.rows
             THEN Raise(c1, "ValueError: kth out of bounds")
             ELSE Did(c1, "argpartition", c.obj.n_neighbors)
    ELSE IF ~c.obj.search_set
    THEN Raise(c, "AttributeError: object has no attribute _random_init")
    ELSE Did(c, "initialised_search", c.obj.n_neighbors)

\* lines 2310-2317: the epoch budget of the pass over the new points
transform_epochs(n_epochs, rows) ==
    IF n_epochs = PyNone
    THEN IF rows <= AutoEpochsLimit THEN TransformEpochsSmall
         ELSE TransformEpochsLarge
    ELSE n_epochs.v \div 3

\* lines 2278-2350: calibration, the bipartite graph, the initial positions
\* and the call of optimize_layout
transform_layout(c, p, X, ub) ==
    LET c1 == Did(c, "smooth_knn_dist", c.obj.n_neighbors)
        c2 == Did(c1, "compute_membership_strengths", 0)
        c3 == Did(c2, "init_transform", 0)
        epochs == transform_epochs(p.n_epochs, X.rows)
    IN  IF c.obj.raw_data.rows > c.obj.embedding.rows /\ ub = "crash"
        THEN Raise(c3, "Crash: out-of-bounds row of the fitted embedding")
        ELSE
        LET c4 == Did(c3, "prune_graph", epochs)
            c5 == Did(c4, "make_epochs_per_sample", epochs)
        IN  IF ~optimize_layout_binds(TransformCallPositional)
            THEN Raise(c5, "TypeError: optimize_layout missing a required argument")
            ELSE [Did(c5, "optimize_layout", JointEpochs)
                    EXCEPT !.ret.embedding =
                               Array("tuple", X.rows, c.obj.embedding.cols, X),
                           !.end = "return"]

transform(o, p, X, ub) ==
    LET c0 == transform_short_circuit(Begin(o), X)
        c1 == Then(c0, LAMBDA c : transform_supported(c, p, X))
        c2 == Then(c1, LAMBDA c : transform_neighbors(c, p, X))
    IN  Then(c2, LAMBDA c : transform_layout(c, p, X, ub))

(***************************************************************************)
(* The state machine.                                                      *)
(***************************************************************************)
\* the outcomes of an out-of-bounds access, where the call can make one
FitUB(p, X) ==
    IF p.init.kind = "ndarray" /\ p.init.rows < X.rows
    THEN {"crash", "continue"} ELSE {"continue"}

\* the outcomes of the least-squares routine on NaN residuals, where the call
\* can meet them
CurveFit(p) ==
    IF ~p.ab_given /\ p.spread < 0
    THEN {"gives_up", "returns"} ELSE {"returns"}

TransformUB(o) ==
    IF o.raw_data.rows > o.embedding.rows
    THEN {"crash", "continue"} ELSE {"continue"}

\* the record of a finished call
Called(op, X, y, c) ==
    [op |-> op, X |-> X, y |-> y, end |-> c.end, ret |-> c.ret,
     steps |-> c.steps, warns |-> c.warns, unchanged |-> c.obj = obj]

NoCall ==
    [op |-> "none", X |-> NoData, y |-> 0, end |-> "none", ret |-> NoRet,
     steps |-> <<>>, warns |-> {}, unchanged |-> TRUE]

\* the history of fit calls: the data of the most recent one, whether it
\* returned, and the data of the most recent one that returned
AfterFit(g, X, c) ==
    [fit_data |-> X,
     fit_ok   |-> c.end = "return",
     ok_data  |-> IF c.end = "return" THEN X ELSE g.ok_data]

NoHistory == [fit_data |-> NoData, fit_ok |-> FALSE, ok_data |-> NoData]

Fit(X, y) ==
    \E ub \in FitUB(cfg, X) :
    \E cf \in CurveFit(cfg) :
    \E c \in {fit(obj, cfg, X, y, ub, cf)} :
        /\ obj' = c.obj
        /\ last' = Called("fit", X, y, c)
        /\ ghost' = AfterFit(ghost, X, c)
        /\ UNCHANGED <<cfg, kern>>

FitTransform(X, y) ==
    \E ub \in FitUB(cfg, X) :
    \E cf \in CurveFit(cfg) :
    \E f \in {fit(obj, cfg, X, y, ub, cf)} :
    \E c \in {fit_transform(obj, cfg, X, y, ub, cf)} :
        /\ obj' = c.obj
        /\ last' = Called("fit_transform", X, y, c)
        /\ ghost' = AfterFit(ghost, X, f)
        /\ UNCHANGED <<cfg, kern>>

Transform(X) ==
    \E ub \in TransformUB(obj) :
    \E c \in {transform(obj, cfg, X, ub)} :
        /\ obj' = c.obj
        /\ last' = Called("transform", X, 0, c)
        /\ UNCHANGED <<cfg, ghost, kern>>

\* no kernel under study
NoKernel == [kernel |-> "none"]

\* the estimator through any sequence of calls, for the configurations whose
\* calls differ in the statements they reach
LifecycleConfigs ==
    {BaseConfig,
     [BaseConfig EXCEPT !.n_neighbors = SmallDataLimit],
     [BaseConfig EXCEPT !.metric = "precomputed"],
     [BaseConfig EXCEPT !.n_clusters = PyInt(MaxRows)],
     [BaseConfig EXCEPT !.init = InitArray(2, MaxRows)]}

Init ==
    /\ cfg \in LifecycleConfigs
    /\ obj = NewObject
    /\ last = NoCall
    /\ ghost = NoHistory
    /\ kern = NoKernel

Next ==
    \E X \in Data :
        \/ \E y \in YValues(X) : Fit(X, y)
        \/ \E y \in YValues(X) : FitTransform(X, y)
        \/ Transform(X)

Spec == Init /\ [][Next]_vars

\* every configuration, through any sequence of fit and fit_transform calls
InitConfig ==
    /\ cfg \in Configs
    /\ obj = NewObject
    /\ last = NoCall
    /\ ghost = NoHistory
    /\ kern = NoKernel

NextConfig ==
    \E X \in Data :
        \E y \in YValues(X) :
            \/ Fit(X, y)
            \/ FitTransform(X, y)

SpecConfig == InitConfig /\ [][NextConfig]_vars

(***************************************************************************)
(* Vocabulary of the properties.                                           *)
(***************************************************************************)
\* the steps of the most recent call, by what they compute
NeighborSearchSteps ==
    {"pairwise_distances", "nearest_neighbors", "argpartition", "initialised_search"}

GraphSteps ==
    {"smooth_knn_dist", "compute_membership_strengths", "fuzzy_union",
     "categorical_simplicial_set_intersection",
     "general_simplicial_set_intersection", "reset_local_connectivity",
     "prune_graph"}

EpochSteps == {"init_optimize_layout", "optimize_layout"}

ClusterSteps == {"KMeans", "optimize_layout", "S_argmax"}

StepsRun == {last.steps[i].op : i \in DOMAIN last.steps}

LastIsFit == last.op \in {"fit", "fit_transform"}

SingleSampleError ==
    "ValueError: Transform unavailable when model was fit with only a single data sample"

UnsupportedErrors ==
    {"ValueError: Transform not available for sparse input",
     "ValueError: Transform of new data not available for precomputed metric"}

\* the errors of kind ValueError that fit raises on its configuration
ValueErrors ==
    ValidationErrors \cup {"ValueError: array must not contain infs or NaNs"}

\* a positive Python int
PositiveInt(x) == IsInstanceInt(x) /\ x.v >= 1

\* the configurations the interface documents as valid
ValidConfig(p) ==
    /\ p.n_neighbors >= 2
    /\ PositiveInt(p.n_components)
    /\ PositiveInt(p.n_clusters)
    /\ p.min_dist >= 0 /\ p.min_dist <= p.spread /\ p.spread > 0
    /\ p.set_op_mix_ratio >= 0 /\ p.set_op_mix_ratio <= 1
    /\ p.local_connectivity >= 0
    /\ p.negative_sample_rate >= 0
    /\ p.repulsion_strength >= 0
    /\ p.learning_rate > 0
    /\ (p.n_epochs = PyNone
          \/ (IsInstanceInt(p.n_epochs) /\ p.n_epochs.v > MinEpochsExclusive))
    /\ p.metric \in {"euclidean", "precomputed"}
    /\ \/ p.init.kind = "str" /\ p.init.name \in {"spectral", "random"}
       \/ p.init.kind = "ndarray" /\ p.init.width = p.n_components.v
    /\ (p.target_n_neighbors = -1 \/ p.target_n_neighbors >= 2)

(***************************************************************************)
(* C1.  For every valid configuration, fit on a data matrix of exactly one *)
(* row returns without error, stores an all-zero embedding of shape        *)
(* 1 x n_components, and executes no step at all: no neighbour search, no  *)
(* graph construction, no optimizer epoch.                                 *)
(***************************************************************************)
C1_SingleRowFit ==
    (last.op = "fit" /\ last.X.rows = 1 /\ ValidConfig(cfg))
        => /\ last.end = "return"
           /\ obj.embedding = Array("zeros", 1, cfg.n_components.v, last.X)
           /\ last.steps = <<>>

\* a single-row fit on an estimator that an earlier fit had given labels
C1_Witness ==
    /\ last.op = "fit" /\ last.X.rows = 1 /\ ValidConfig(cfg)
    /\ last.end = "return"
    /\ obj.embedding.kind = "zeros"
    /\ obj.y_pred.kind = "labels"

(***************************************************************************)
(* C2.  When the most recent fit that returned was given an array of more  *)
(* than one row, transform on an array of the same content returns the     *)
(* embedding that fit stored, changes nothing, and runs no neighbour       *)
(* search and no epoch; transform on any other array (such as the data of  *)
(* an earlier fit) does not take the short circuit.                        *)
(***************************************************************************)
ShortCircuited == last.end = "return" /\ last.steps = <<Step("hash", 0)>>

C2_HashShortCircuit ==
    (last.op = "transform" /\ ghost.ok_data.rows > 1)
        => IF last.X = ghost.ok_data
           THEN /\ ShortCircuited
                /\ last.ret.embedding = obj.embedding
                /\ obj.embedding.kind = "embedding"
                /\ obj.embedding.src = Hash(ghost.ok_data)
                /\ last.unchanged
           ELSE ~ShortCircuited

\* the short circuit taken for the data of the most recent fit
C2_Witness ==
    /\ last.op = "transform" /\ ghost.ok_data.rows > 1
    /\ last.X = ghost.ok_data
    /\ ShortCircuited
    /\ last.ret.embedding.src = Hash(last.X)

C4_TransformNewPoints ==
    (/\ last.op = "transform"
     /\ ghost.fit_ok /\ ghost.ok_data.rows > 1 /\ ~ghost.ok_data.sparse
     /\ cfg.metric # "precomputed"
     /\ ~last.X.sparse /\ last.X # ghost.ok_data)
        => /\ last.end = "return"
           /\ last.ret.embedding.kind = "embedding"
           /\ last.ret.embedding.rows = last.X.rows
           /\ last.ret.embedding.cols = cfg.n_components.v
           /\ StepsRun \cap ClusterSteps = {}
           /\ last.unchanged

(***************************************************************************)
(* C5.  As claimed: whenever the fit inside fit_transform returns on data  *)
(* of n rows, fit_transform returns an embedding of n rows, n labels in    *)
(* 0..n_clusters-1 and n_clusters centroids, all three computed from the   *)
(* data of this call.                                                      *)
(***************************************************************************)
C5_FitTransformTriple ==
    (last.op = "fit_transform" /\ ghost.fit_ok)
        => /\ last.end = "return"
           /\ last.ret.embedding.rows = last.X.rows
           /\ last.ret.y_pred.rows = last.X.rows
           /\ last.ret.y_pred.cols = cfg.n_clusters.v
           /\ last.ret.centroids.rows = cfg.n_clusters.v
           /\ last.ret.embedding.src = Hash(last.X)
           /\ last.ret.y_pred.src = Hash(last.X)
           /\ last.ret.centroids.src = Hash(last.X)

(***************************************************************************)
(* C6.  As claimed: every configuration error of fit (a hyperparameter out *)
(* of range, an init array of the wrong width, a label array of the wrong  *)
(* length, an unknown metric name) is raised before any neighbour search,  *)
(* graph construction or optimizer epoch of that call.                     *)
(***************************************************************************)
ConfigurationErrors ==
    ValidationErrors
        \cup {"ValueError: Length of x and y must be equal",
              "ValueError: Unknown metric",
              "ValueError: Metric is neither callable, nor a recognised string"}

C6_ConfigErrorsFailFast ==
    (LastIsFit /\ last.end \in ConfigurationErrors)
        => StepsRun \cap (NeighborSearchSteps \cup GraphSteps \cup EpochSteps) = {}

(***************************************************************************)
(* C7.  As claimed: fit raises ValueError whenever set_op_mix_ratio is     *)
(* outside [0,1], repulsion_strength < 0, min_dist < 0, min_dist > spread, *)
(* n_neighbors < 2, n_components is not an integer or is < 1,              *)
(* negative_sample_rate < 0, n_epochs is set and is not an integer or is   *)
(* <= 10, init is neither "spectral", "random" nor an array of width       *)
(* n_components, or metric is neither a string nor callable.               *)
(***************************************************************************)
C7Condition(p) ==
    \/ p.set_op_mix_ratio < 0 \/ p.set_op_mix_ratio > 1
    \/ p.repulsion_strength < 0
    \/ p.min_dist < 0
    \/ p.min_dist > p.spread
    \/ p.n_neighbors < 2
    \/ ~IsInstanceInt(p.n_components) \/ p.n_components.v < 1
    \/ p.negative_sample_rate < 0
    \/ p.n_epochs # PyNone
         /\ (~IsInstanceInt(p.n_epochs) \/ p.n_epochs.v <= MinEpochsExclusive)
    \/ ~ \/ p.init.kind = "str" /\ p.init.name \in {"spectral", "random"}
         \/ p.init.kind = "ndarray" /\ p.init.width = p.n_components.v
    \/ p.metric = "not_str_or_callable"

C7_ValidationRaises ==
    (LastIsFit /\ C7Condition(cfg)) => last.end \in ValueErrors

(***************************************************************************)
(* C8.  As claimed: fit rejects with a configuration error every           *)
(* learning_rate that is not strictly positive and every spread that is    *)
(* not strictly positive.                                                  *)
(***************************************************************************)
C8_PositiveRateAndSpread ==
    (LastIsFit /\ (cfg.learning_rate <= 0 \/ cfg.spread <= 0))
        => last.end \in ValueErrors

(***************************************************************************)
(* C9.  As claimed: fit on more than one row with n_clusters None, zero,   *)
(* negative or not an integer fails with a configuration error raised      *)
(* before any neighbour search, graph construction or optimizer epoch.     *)
(***************************************************************************)
C9_ClustersRequired ==
    (LastIsFit /\ last.X.rows > 1 /\ ~PositiveInt(cfg.n_clusters))
        => /\ last.end \in ValueErrors
           /\ StepsRun \cap (NeighborSearchSteps \cup GraphSteps \cup EpochSteps) = {}

(***************************************************************************)
(* C10.  As claimed: a fit on n > 1 rows with n <= n_neighbors warns and   *)
(* succeeds, and its neighbour search and its smooth-kNN calibration, on   *)
(* the small-data and on the large-data path, use n - 1 neighbours and     *)
(* never the configured n_neighbors (fit without labels, n_clusters at     *)
(* most n).                                                                *)
(***************************************************************************)
C10_ClampedNeighbors ==
    (last.op = "fit" /\ last.X.rows > 1 /\ last.X.rows <= cfg.n_neighbors
        /\ last.y = 0 /\ KMeansAccepts(cfg.n_clusters, last.X.rows))
        => /\ "n_neighbors is larger than the dataset size" \in last.warns
           /\ last.end = "return"
           /\ \A i \in DOMAIN last.steps :
                 last.steps[i].op \in {"nearest_neighbors", "smooth_knn_dist"}
                     => last.steps[i].k = last.X.rows - 1

(***************************************************************************)
(* C11.  In every fit that reaches the manifold pass, its epoch budget is  *)
(* the caller's n_epochs when that is set, otherwise 500 when the graph    *)
(* has at most 10000 points and 200 when it has more; the pruning          *)
(* threshold and the sampling schedule are computed from the same value.   *)
(***************************************************************************)
EpochBudget(p, rows) ==
    IF p.n_epochs # PyNone THEN p.n_epochs.v
    ELSE IF rows <= AutoEpochsLimit THEN AutoEpochsSmall
    ELSE AutoEpochsLarge

BudgetSteps == {"prune_graph", "make_epochs_per_sample", "init_optimize_layout"}

C11_EpochBudget ==
    LastIsFit
        => /\ \A i \in DOMAIN last.steps :
                 last.steps[i].op \in BudgetSteps
                     => last.steps[i].k = EpochBudget(cfg, last.X.rows)
           /\ last.end = "return" /\ last.X.rows > 1
                 => BudgetSteps \subseteq StepsRun

\* a fit of more than 10000 points and a configured budget
C11_Witness ==
    /\ last.op = "fit" /\ last.end = "return"
    /\ last.X.rows > AutoEpochsLimit
    /\ cfg.n_epochs = PyInt(MinEpochsExclusive + 1)
    /\ Step("init_optimize_layout", MinEpochsExclusive + 1)
           \in {last.steps[i] : i \in DOMAIN last.steps}

(***************************************************************************)
(* The sampling schedule and the two optimizer passes of                   *)
(* simplicial_set_embedding, on a graph of a few edges.  Weights are       *)
(* integers and every float of the schedule is the exact fraction it       *)
(* stands for: a period is num/den, a counter is kept as its numerator.    *)
(***************************************************************************)
\* the edges of the graph and the largest weight of an edge
NumEdges == 2
MaxWeight == 11

\* UEC_PV.__init__: negative_sample_rate=5
NegativeSampleRate == 5

\* negative_sample_rate: the default and the smallest whole rate
NegativeSampleRates == {1, NegativeSampleRate}

WeightValues == {0, 1, 2, MaxWeight - 1, MaxWeight}

\* the budgets of the manifold pass: the smallest ones validation accepts
EpochValues == {MinEpochsExclusive + 1, MinEpochsExclusive + 2}

\* weights.max()
MaxOf(weights) ==
    CHOOSE m \in {weights[i] : i \in DOMAIN weights} :
        \A i \in DOMAIN weights : weights[i] <= m

\* lines 1321-1324: weights below max/n_epochs are set to zero, zeros removed
prune(weights, n_epochs) ==
    LET Kept(w) == ~(w * n_epochs < MaxOf(weights)) /\ w # 0
    IN  SelectSeq(weights, Kept)

\* make_epochs_per_sample: n_epochs / n_samples where n_samples =
\* n_epochs * (weight / max) is positive (0/0 is NaN and compares false),
\* -1.0 elsewhere
make_epochs_per_sample(weights, n_epochs) ==
    [i \in DOMAIN weights |->
        IF MaxOf(weights) # 0 /\ n_epochs * weights[i] > 0
        THEN [num |-> MaxOf(weights), den |-> weights[i]]
        ELSE [num |-> -1, den |-> 1]]

\* int(a / b) of Python: truncation towards zero
TruncDiv(a, b) ==
    LET Abs(x) == IF x < 0 THEN -x ELSE x
        q == Abs(a) \div Abs(b)
    IN  IF (a < 0) = (b < 0) THEN q ELSE -q

\* the counters at the start of a pass: copies of the periods.  next[e] is
\* epoch_of_next_sample over den, next_neg[e] is
\* epoch_of_next_negative_sample over den * negative_sample_rate
StartPass(eps) ==
    [n          |-> 0,
     i          |-> 1,
     next       |-> [e \in DOMAIN eps |-> eps[e].num],
     next_neg   |-> [e \in DOMAIN eps |-> eps[e].num],
     hits       |-> [e \in DOMAIN eps |-> 0],
     epoch_hits |-> [e \in DOMAIN eps |-> 0],
     negs       |-> [e \in DOMAIN eps |-> 0]]

\* the body of the edge loop with the counter restarted from the epoch:
\* epoch_of_next_sample[i] = n + epochs_per_sample[i]
sample_edge_restarted(r, eps, e) ==
    IF r.next[e] <= r.n * eps[e].den
    THEN [r EXCEPT !.i = e + 1,
                   !.next[e] = r.n * eps[e].den + eps[e].num,
                   !.hits[e] = @ + 1,
                   !.epoch_hits[e] = @ + 1]
    ELSE [r EXCEPT !.i = e + 1]

\* the body of the edge loop with the negative samples counted from the
\* sampling period: int((n - c) / epochs_per_sample[i])
sample_edge_coarse(r, eps, e) ==
    IF r.next[e] <= r.n * eps[e].den
    THEN LET n_neg_samples ==
                 TruncDiv(r.n * eps[e].den * kern.rate - r.next_neg[e],
                          eps[e].num * kern.rate)
         IN  [r EXCEPT !.i = e + 1,
                       !.next[e] = @ + eps[e].num,
                       !.hits[e] = @ + 1,
                       !.epoch_hits[e] = @ + 1,
                       !.negs[e] = @ + (IF n_neg_samples > 0
                                        THEN n_neg_samples ELSE 0),
                       !.next_neg[e] = @ + n_neg_samples * eps[e].num]
    ELSE [r EXCEPT !.i = e + 1]

\* the body of "for i in range(epochs_per_sample.shape[0])" for edge e in
\* epoch r.n, the same in both passes: the attraction step, the counter, the
\* negative samples
sample_edge(r, eps, e) ==
    IF r.next[e] <= r.n * eps[e].den
    THEN LET n_neg_samples ==
                 TruncDiv(r.n * eps[e].den * kern.rate - r.next_neg[e],
                          eps[e].num)
         IN  [r EXCEPT !.i = e + 1,
                       !.next[e] = @ + eps[e].num,
                       !.hits[e] = @ + 1,
                       !.epoch_hits[e] = @ + 1,
                       !.negs[e] = @ + (IF n_neg_samples > 0
                                        THEN n_neg_samples ELSE 0),
                       !.next_neg[e] = @ + n_neg_samples * eps[e].num]
    ELSE [r EXCEPT !.i = e + 1]

\* the joint pass run for the budget of its caller
joint_epochs_caller(n_epochs) == n_epochs

\* optimize_layout: "n_epochs=10" at the head of the body
joint_epochs(n_epochs) == JointEpochs

\* for n in range(n_epochs)
PassEpochs(phase, n_epochs) ==
    IF phase = "init_optimize_layout" THEN n_epochs ELSE joint_epochs(n_epochs)

\* simplicial_set_embedding from the pruning on ("graph"), or the schedule
\* and the passes called on weights as they are ("direct")
Layout(source, weights, n_epochs) ==
    LET kept == IF source = "graph" THEN prune(weights, n_epochs) ELSE weights
        eps  == make_epochs_per_sample(kept, n_epochs)
    IN  [kernel   |-> "layout",
         source   |-> source,
         weights  |-> kept,
         n_epochs |-> n_epochs,
         eps      |-> eps,
         phase    |-> "init_optimize_layout",
         run      |-> StartPass(eps),
         epochs   |-> [manifold |-> 0, joint |-> 0],
         manifold |-> StartPass(eps),
         log      |-> <<"init_optimize_layout">>]

InitLayout ==
    /\ cfg = BaseConfig
    /\ obj = NewObject
    /\ last = NoCall
    /\ ghost = NoHistory
    /\ \E source \in {"graph", "direct"} :
       \E n_epochs \in EpochValues :
       \E weights \in [1..NumEdges -> WeightValues] :
       \E rate \in NegativeSampleRates :
           /\ source = "graph" => \A i \in 1..NumEdges : weights[i] > 0
           /\ kern = Layout(source, weights, n_epochs) @@ [rate |-> rate]

InPass == kern.phase \in {"init_optimize_layout", "optimize_layout"}

\* one edge of the inner loop
LayoutEdge ==
    /\ InPass
    /\ kern.run.i <= Len(kern.eps)
    /\ kern' = [kern EXCEPT !.run = sample_edge(@, kern.eps, @.i)]
    /\ UNCHANGED <<cfg, obj, last, ghost>>

\* the end of the inner loop: the next epoch, or the end of the pass
LayoutEpoch ==
    /\ InPass
    /\ kern.run.i = Len(kern.eps) + 1
    /\ LET manifold == kern.phase = "init_optimize_layout"
           counted  == IF manifold
                       THEN [kern EXCEPT !.epochs.manifold = @ + 1]
                       ELSE [kern EXCEPT !.epochs.joint = @ + 1]
           after    == IF manifold THEN "KMeans" ELSE "S_argmax"
       IN  kern' =
             IF kern.run.n + 1 < PassEpochs(kern.phase, kern.n_epochs)
             THEN [counted EXCEPT !.run.n = @ + 1,
                                  !.run.i = 1,
                                  !.run.epoch_hits =
                                       [e \in DOMAIN kern.eps |-> 0]]
             ELSE [counted EXCEPT !.phase = after,
                                  !.log = Append(@, after)]
    /\ UNCHANGED <<cfg, obj, last, ghost>>

\* lines 1398-1400, then the joint pass starts from fresh counters
LayoutCentroids ==
    /\ kern.phase = "KMeans"
    /\ kern' = [kern EXCEPT !.phase = "optimize_layout",
                            !.manifold = kern.run,
                            !.run = StartPass(kern.eps),
                            !.log = Append(@, "optimize_layout")]
    /\ UNCHANGED <<cfg, obj, last, ghost>>

\* lines 1443-1446
LayoutLabels ==
    /\ kern.phase = "S_argmax"
    /\ kern' = [kern EXCEPT !.phase = "done"]
    /\ UNCHANGED <<cfg, obj, last, ghost>>

NextLayout ==
    \/ LayoutEdge
    \/ LayoutEpoch
    \/ LayoutCentroids
    \/ LayoutLabels

\* each loop runs on: nothing outside the call can hold a step back
SpecLayout == InitLayout /\ [][NextLayout]_vars /\ WF_vars(NextLayout)

RngModulus == 5

NextRng(state) == (2 * state + 1) % RngModulus

\* random_state of the constructor: None or an integer seed
SeedValues == {PyNone, PyInt(0), PyInt(1)}

\* sklearn's check_random_state that binds every fit to the global generator
check_random_state_global(seed) == [stream |-> "global", state |-> 0]

\* line 1955: check_random_state(self.random_state): the global generator for
\* None, a new generator seeded with the integer otherwise
check_random_state(seed) ==
    IF seed = PyNone
    THEN [stream |-> "global", state |-> 0]
    ELSE [stream |-> "own", state |-> seed.v % RngModulus]

\* the draws of one fit, in the order of the code: the neighbour search
\* (line 1992), the initial layout (lines 1327-1364), rng_state (line 1375),
\* the negative samples of the manifold pass (line 1036), the initial
\* centroids (line 1398), the negative samples of the joint pass (line 1178)
DrawOrder ==
    <<"nearest_neighbors", "initial_layout", "rng_state", "negative_sample",
      "KMeans", "negative_sample">>

NoDraws == [call \in {1, 2} |-> <<>>]

SeedKernel(seed, ambient) ==
    [kernel       |-> "seed",
     random_state |-> seed,
     ambient      |-> ambient,      \* the state of np.random
     disturbed    |-> FALSE,        \* other code has drawn from np.random
     call         |-> 0,
     pos          |-> 1,
     gen          |-> check_random_state(seed),
     rng_state    |-> [source |-> "none", state |-> 0],
     out          |-> NoDraws,      \* the values drawn by each call
     sources      |-> {}]           \* where each draw took its state from

InitSeed ==
    /\ cfg = BaseConfig
    /\ obj = NewObject
    /\ last = NoCall
    /\ ghost = NoHistory
    /\ \E seed \in SeedValues :
       \E ambient \in 0..(RngModulus - 1) :
           kern = SeedKernel(seed, ambient)

SeedFinished == kern.call >= 1 /\ kern.pos > Len(DrawOrder)

\* fit is called: a generator is made from self.random_state
SeedFit ==
    /\ kern.call = 0 \/ (kern.call = 1 /\ SeedFinished)
    /\ kern' = [kern EXCEPT !.call = @ + 1,
                            !.pos = 1,
                            !.gen = check_random_state(kern.random_state)]
    /\ UNCHANGED <<cfg, obj, last, ghost>>

\* a value drawn from random_state: from the named generator
FromGenerator(k) ==
    IF k.gen.stream = "global"
    THEN [value |-> k.ambient, source |-> "ambient",
          next  |-> [k EXCEPT !.ambient = NextRng(@)]]
    ELSE [value |-> k.gen.state, source |-> "random_state",
          next  |-> [k EXCEPT !.gen.state = NextRng(@)]]

\* one draw of the current call
draw(k) ==
    LET name == DrawOrder[k.pos]
        Out(kk, v, src) ==
            [kk EXCEPT !.pos = @ + 1,
                       !.out[k.call] = Append(@, v),
                       !.sources = @ \cup {<<name, src>>}]
    IN  CASE name \in {"nearest_neighbors", "initial_layout"} ->
                 LET d == FromGenerator(k) IN Out(d.next, d.value, d.source)
          [] name = "rng_state" ->
                 LET d == FromGenerator(k)
                 IN  Out([d.next EXCEPT !.rng_state =
                              [source |-> d.source, state |-> d.value]],
                         d.value, d.source)
          [] name = "negative_sample" ->
                 Out([k EXCEPT !.rng_state.state = NextRng(@)],
                     k.rng_state.state, k.rng_state.source)
          [] name = "KMeans" ->
                 Out(k, NextRng(0), "constant")

SeedDraw ==
    /\ kern.call >= 1
    /\ kern.pos <= Len(DrawOrder)
    /\ kern' = draw(kern)
    /\ UNCHANGED <<cfg, obj, last, ghost>>

\* other code of the process draws from np.random
SeedAmbient ==
    /\ ~(kern.call = 2 /\ SeedFinished)
    /\ kern' = [kern EXCEPT !.ambient = NextRng(@), !.disturbed = TRUE]
    /\ UNCHANGED <<cfg, obj, last, ghost>>

NextSeed ==
    \/ SeedFit
    \/ SeedDraw
    \/ SeedAmbient

SpecSeed == InitSeed /\ [][NextSeed]_vars

(***************************************************************************)
(* C13.  As claimed: two fit calls on the same data with the same          *)
(* configuration and the same integer random_state draw the same values,   *)
(* and every draw (initial layout, negative samples, initial centroids)    *)
(* takes its state from the caller's seed.                                 *)
(***************************************************************************)
BothFitsDone ==
    /\ kern.call = 2 /\ SeedFinished
    /\ IsInstanceInt(kern.random_state)

MaxGrad == 6

\* the bounds of clip and of clip_clust
ClipBound == 4
ClipClustBound == 1

\* optimize_layout: "current += grad_coeff * beta * etaKL * 1e-5"
ClusterStepInverse == 100000

\* optimize_layout: "centroid += (grad_coeff * etaKL)/(nn_sample*100)"
CentroidStepInverse == 100

GradValues == (0 - MaxGrad)..MaxGrad

\* the learning rates validation accepts, one of them above 1
LearningRates == {0, 1, 2}

clip(val) ==
    IF val > ClipBound THEN ClipBound
    ELSE IF val < 0 - ClipBound THEN 0 - ClipBound
    ELSE val

clip_clust(val) ==
    IF val > ClipClustBound THEN ClipClustBound
    ELSE IF val < 0 - ClipClustBound THEN 0 - ClipClustBound
    ELSE val

NoUpdate == [kind |-> "none", grad |-> 0, num |-> 0, den |-> 1]

\* the step size at the start of a pass, as a multiple of 1/epochs of the pass:
\* "alpha = initial_alpha" and "etaCE = initial_etaCE" (1.0)
StartStep(pass, learning_rate, n_epochs) ==
    IF pass = "init_optimize_layout" THEN learning_rate * n_epochs
    ELSE JointEpochs

\* the end of epoch n: "alpha = initial_alpha * (1.0 - n / n_epochs)" and
\* "etaCE = initial_etaCE * (1.0 - n / n_epochs)"
DecayedStep(pass, learning_rate, n_epochs, n) ==
    IF pass = "init_optimize_layout" THEN learning_rate * (n_epochs - n)
    ELSE JointEpochs - n

UpdateKernel(learning_rate, n_epochs) ==
    [kernel        |-> "update",
     learning_rate |-> learning_rate,
     n_epochs      |-> n_epochs,
     pass          |-> "init_optimize_layout",
     n             |-> 0,
     step          |-> StartStep("init_optimize_layout", learning_rate, n_epochs),
     update        |-> NoUpdate]

InitUpdate ==
    /\ cfg = BaseConfig
    /\ obj = NewObject
    /\ last = NoCall
    /\ ghost = NoHistory
    /\ \E learning_rate \in LearningRates :
       \E n_epochs \in EpochValues :
           kern = UpdateKernel(learning_rate, n_epochs)

UpdatePassEpochs == PassEpochs(kern.pass, kern.n_epochs)

\* "current[d] += grad_d * alpha" with grad_d = clip(...), in both passes
UpdateAttraction(grad) ==
    /\ kern.pass # "done"
    /\ kern' = [kern EXCEPT !.update =
                   [kind |-> "attraction", grad |-> grad,
                    num |-> clip(grad) * kern.step, den |-> UpdatePassEpochs]]
    /\ UNCHANGED <<cfg, obj, last, ghost>>

\* a negative sample: the clipped gradient, or "grad_d = 4.0" when the two
\* points coincide (grad_coeff is 0.0)
UpdateRepulsion(grad, coincide) ==
    /\ kern.pass # "done"
    /\ kern' = [kern EXCEPT !.update =
                   [kind |-> "repulsion", grad |-> grad,
                    num |-> (IF coincide THEN ClipBound ELSE clip(grad))
                                * kern.step,
                    den |-> UpdatePassEpochs]]
    /\ UNCHANGED <<cfg, obj, last, ghost>>

\* the pull of a point towards a centroid, in the joint pass only
UpdateClustering(grad) ==
    /\ kern.pass = "optimize_layout"
    /\ kern' = [kern EXCEPT !.update =
                   [kind |-> "clustering", grad |-> grad,
                    num |-> clip_clust(grad), den |-> ClusterStepInverse]]
    /\ UNCHANGED <<cfg, obj, last, ghost>>

\* the move of a centroid at the end of an epoch of the joint pass
UpdateCentroid(grad, rows) ==
    /\ kern.pass = "optimize_layout"
    /\ kern' = [kern EXCEPT !.update =
                   [kind |-> "centroid", grad |-> grad,
                    num |-> clip(grad), den |-> rows * CentroidStepInverse]]
    /\ UNCHANGED <<cfg, obj, last, ghost>>

\* the end of an epoch: the step size decays; the joint pass follows the
\* manifold pass
UpdateEpoch ==
    /\ kern.pass # "done"
    /\ kern' =
         IF kern.n + 1 < UpdatePassEpochs
         THEN [kern EXCEPT !.n = @ + 1,
                           !.step = DecayedStep(kern.pass, kern.learning_rate,
                                                kern.n_epochs, kern.n)]
         ELSE IF kern.pass = "init_optimize_layout"
         THEN [kern EXCEPT !.pass = "optimize_layout",
                           !.n = 0,
                           !.step = StartStep("optimize_layout",
                                              kern.learning_rate, kern.n_epochs)]
         ELSE [kern EXCEPT !.pass = "done"]
    /\ UNCHANGED <<cfg, obj, last, ghost>>

NextUpdate ==
    \/ \E grad \in GradValues : UpdateAttraction(grad)
    \/ \E grad \in GradValues : \E coincide \in BOOLEAN :
           UpdateRepulsion(grad, coincide)
    \/ \E grad \in GradValues : UpdateClustering(grad)
    \/ \E grad \in GradValues : \E rows \in 2..MaxRows :
           UpdateCentroid(grad, rows)
    \/ UpdateEpoch

SpecUpdate == InitUpdate /\ [][NextUpdate]_vars

(***************************************************************************)
(* C14.  As claimed: in both passes and for every accepted learning_rate,  *)
(* the change one attraction or repulsion step applies to a coordinate     *)
(* never exceeds 4.0 in magnitude, and the change one clustering step      *)
(* applies never exceeds 1.0.                                              *)
(***************************************************************************)
Magnitude(x) == IF x < 0 THEN 0 - x ELSE x

C14_BoundedUpdates ==
    /\ kern.update.kind \in {"attraction", "repulsion"}
          => Magnitude(kern.update.num) <= ClipBound * kern.update.den
    /\ kern.update.kind \in {"clustering", "centroid"}
          => Magnitude(kern.update.num) <= ClipClustBound * kern.update.den

(***************************************************************************)
(* The fuzzy graph of fit on a few points: the directed memberships, their *)
(* fuzzy union, the supervised fusion and the pruning of                   *)
(* simplicial_set_embedding.  A weight is the exact fraction it stands     *)
(* for, in lowest terms; a stored entry is a nonzero one (every step ends  *)
(* in eliminate_zeros).                                                    *)
(***************************************************************************)
\* the points of the graph
NumNodes == 3

Nodes == 1..NumNodes

RECURSIVE Gcd(_, _)
\* the lowest terms of a fraction
Gcd(a, b) == IF b = 0 THEN a ELSE Gcd(b, a % b)

\* the float num/den, den > 0
Frac(num, den) ==
    LET m == IF num < 0 THEN 0 - num ELSE num
        g == Gcd(m, den)
    IN  [num |-> num \div g, den |-> den \div g]

FZero == Frac(0, 1)
FHalf == Frac(1, 2)
FOne == Frac(1, 1)

\* x + y, x - y, x * y, x / y and x < y on floats
FAdd(x, y) == Frac(x.num * y.den + y.num * x.den, x.den * y.den)
FSub(x, y) == Frac(x.num * y.den - y.num * x.den, x.den * y.den)
FMul(x, y) == Frac(x.num * y.num, x.den * y.den)
FDiv(x, y) == Frac(x.num * y.den, x.den * y.num)
FLess(x, y) == x.num * y.den < y.num * x.den

\* the largest of a non-empty set of floats
FMax(values) == CHOOSE m \in values : \A v \in values : ~FLess(m, v)

\* the stored entries of a sparse matrix
Stored(graph) == {e \in DOMAIN graph : graph[e] # FZero}

\* graph.transpose()
transpose(graph) == [e \in DOMAIN graph |-> graph[<<e[2], e[1]>>]]

\* lines 579-588 without the transpose: the mix of the directed graph and
\* the product
fuzzy_union_directed(result, set_op_mix_ratio) ==
    LET t == transpose(result)
    IN  [e \in DOMAIN result |->
            LET prod == FMul(result[e], t[e])
            IN  FAdd(FMul(set_op_mix_ratio, result[e]),
                     FMul(FSub(FOne, set_op_mix_ratio), prod))]

\* fuzzy_simplicial_set, lines 579-588: set_op_mix_ratio * (result +
\* transpose - prod_matrix) + (1.0 - set_op_mix_ratio) * prod_matrix
fuzzy_union(result, set_op_mix_ratio) ==
    LET t == transpose(result)
    IN  [e \in DOMAIN result |->
            LET prod == FMul(result[e], t[e])
            IN  FAdd(FMul(set_op_mix_ratio,
                          FSub(FAdd(result[e], t[e]), prod)),
                     FMul(FSub(FOne, set_op_mix_ratio), prod))]

\* exp(-unknown_dist) and exp(-far_dist) of fast_intersection: irrational
\* factors below one, stood for by fractions; with target_weight 1.0 the
\* far distance is 1.0e12 and the factor underflows to 0.0
UnknownFactor == Frac(1, 2)
FarFactors == {Frac(1, 4), FZero}

\* the labellings of the points, -1 for an unlabelled one, up to the names
\* of the classes (fast_intersection only compares labels): class 1 is
\* used after class 0
TargetLabels ==
    {target \in [Nodes -> {-1, 0, 1}] :
        \A i \in Nodes : target[i] = 1 => \E j \in 1..(i - 1) : target[j] = 0}

\* fast_intersection: an entry with an unlabelled end (-1) is scaled by
\* exp(-unknown_dist), one with ends of different labels by exp(-far_dist)
fast_intersection(graph, target, far) ==
    [e \in DOMAIN graph |->
        IF target[e[1]] = -1 \/ target[e[2]] = -1
        THEN FMul(graph[e], UnknownFactor)
        ELSE IF target[e[1]] # target[e[2]]
             THEN FMul(graph[e], far)
             ELSE graph[e]]

\* normalize(simplicial_set, norm="max"): each row over its largest entry,
\* a row of zeros left as it is
normalize(graph) ==
    LET top == [i \in Nodes |-> FMax({graph[<<i, j>>] : j \in Nodes})]
    IN  [e \in DOMAIN graph |->
            IF top[e[1]] = FZero
            THEN graph[e] ELSE FDiv(graph[e], top[e[1]])]

\* reset_local_connectivity: the rows normalised, then
\* simplicial_set + transpose - prod_matrix
reset_local_connectivity(simplicial_set) ==
    fuzzy_union(normalize(simplicial_set), FOne)

\* categorical_simplicial_set_intersection
categorical_simplicial_set_intersection(simplicial_set, target, far) ==
    reset_local_connectivity(fast_intersection(simplicial_set, target, far))

\* the membership counted for an entry one of the two graphs does not store
GeneralFill == Frac(1, 4)

\* general_simplicial_set_intersection: the entries of set1 + set2, each
\* the product of the two memberships, an absent membership counted as
\* GeneralFill
general_simplicial_set_intersection(left, right) ==
    [e \in DOMAIN left |->
        IF left[e] = FZero /\ right[e] = FZero
        THEN FZero
        ELSE FMul(IF left[e] = FZero THEN GeneralFill ELSE left[e],
                  IF right[e] = FZero THEN GeneralFill ELSE right[e])]

\* lines 1321-1324 on the matrix: entries below max / n_epochs become 0.0
\* and are eliminated
prune_graph(graph, n_epochs) ==
    LET top == FMax({graph[e] : e \in DOMAIN graph})
    IN  [e \in DOMAIN graph |->
            IF FLess(graph[e], FDiv(top, Frac(n_epochs, 1)))
            THEN FZero ELSE graph[e]]

\* the directed graphs of a search for one neighbour besides the point
\* itself: one membership strength in each row, none on the diagonal
DirectedGraphs(strengths) ==
    {[e \in Nodes \X Nodes |->
         IF e[2] = knn[e[1]] THEN vals[e[1]] ELSE FZero] :
        knn \in {f \in [Nodes -> Nodes] : \A i \in Nodes : f[i] # i},
        vals \in [Nodes -> strengths]}

\* the target graph of a numeric target: fuzzy_simplicial_set with
\* set_op_mix_ratio 1.0 (lines 2082-2109)
TargetGraphs == {fuzzy_union(g, FOne) : g \in DirectedGraphs({FOne})}

GraphKernel(directed) ==
    [kernel |-> "graph", phase |-> "directed", graph |-> directed,
     one_way |-> \E e \in Stored(directed) :
                     <<e[2], e[1]>> \notin Stored(directed),
     fusion |-> "none",
     had    |-> {}]          \* the points with an edge before the fusion

InitGraph ==
    /\ cfg = BaseConfig
    /\ obj = NewObject
    /\ last = NoCall
    /\ ghost = NoHistory
    /\ \E directed \in DirectedGraphs({FHalf, FOne}) : kern = GraphKernel(directed)

\* fuzzy_simplicial_set, lines 577-594
GraphUnion(set_op_mix_ratio) ==
    /\ kern.phase = "directed"
    /\ kern' = [kern EXCEPT !.phase = "graph_",
                            !.graph = fuzzy_union(@, set_op_mix_ratio)]
    /\ UNCHANGED <<cfg, obj, last, ghost>>

\* fit, lines 2057-2066
GraphCategorical(target, far) ==
    /\ kern.phase = "graph_"
    /\ kern.fusion = "none"
    /\ kern' = [kern EXCEPT
                  !.fusion = "categorical",
                  !.had = {e[1] : e \in Stored(kern.graph)},
                  !.graph = categorical_simplicial_set_intersection(
                                @, target, far)]
    /\ UNCHANGED <<cfg, obj, last, ghost>>

\* fit, lines 2067-2122
GraphGeneral(target_graph) ==
    /\ kern.phase = "graph_"
    /\ kern.fusion = "none"
    /\ kern' = [kern EXCEPT
                  !.fusion = "general",
                  !.graph = reset_local_connectivity(
                                general_simplicial_set_intersection(
                                    @, target_graph))]
    /\ UNCHANGED <<cfg, obj, last, ghost>>

\* simplicial_set_embedding, lines 1310-1324; max() of no entries raises
GraphPrune(n_epochs) ==
    /\ kern.phase = "graph_"
    /\ kern' = IF Stored(kern.graph) = {}
               THEN [kern EXCEPT !.phase = "ValueError"]
               ELSE [kern EXCEPT !.phase = "pruned",
                                 !.graph = prune_graph(@, n_epochs)]
    /\ UNCHANGED <<cfg, obj, last, ghost>>

NextGraph ==
    \/ \E set_op_mix_ratio \in {FZero, FHalf, FOne} :
           GraphUnion(set_op_mix_ratio)
    \/ \E target \in TargetLabels : \E far \in FarFactors :
           GraphCategorical(target, far)
    \/ \E target_graph \in TargetGraphs : GraphGeneral(target_graph)
    \/ \E n_epochs \in EpochValues \cup {AutoEpochsSmall} :
           GraphPrune(n_epochs)

SpecGraph == InitGraph /\ [][NextGraph]_vars

\* weight and presence agree in both directions
Symmetric(graph) == graph = transpose(graph)

\* C15: for every set_op_mix_ratio in [0,1], with or without supervised
\* fusion (categorical or general target), the graph fit produces and the
\* pruned graph handed to the optimizer are symmetric: the weight stored
\* for (i,j) equals the weight stored for (j,i), and an edge is present in
\* one direction exactly when it is present in the other.
C15_GraphSymmetric ==
    kern.kernel = "graph" /\ kern.phase \in {"graph_", "pruned"} =>
        /\ Symmetric(kern.graph)
        /\ \A e \in DOMAIN kern.graph :
               e \in Stored(kern.graph)
                   <=> <<e[2], e[1]>> \in Stored(kern.graph)

\* a pruned graph, fused with a target, grown from a directed graph with an
\* edge stored in one direction only, with a weight strictly between 0 and 1
C15_Witness ==
    /\ kern.kernel = "graph"
    /\ kern.phase = "pruned"
    /\ kern.fusion # "none"
    /\ kern.one_way
    /\ \E e \in Stored(kern.graph) : kern.graph[e] # FOne

(***************************************************************************)
(* The soft assignment of the joint pass and the final labels: two points  *)
(* and the centroids of BaseConfig on a line of integer positions.  The    *)
(* optimizer's moves are any change of the positions; every float is the   *)
(* exact fraction it stands for.                                           *)
(***************************************************************************)
\* the largest position on the line
MaxCoord == 1

\* optimize_layout: "update_interval=5"
UpdateInterval == 5

Coords == 0..MaxCoord
Points == 1..2
Clusters == 0..(BaseConfig.n_clusters.v - 1)

\* the curve parameters: found by find_ab_params, or given to the
\* constructor and taken as they are (fit, lines 1896-1902)
CurveA == {0, 1, 2}
CurveB == {1}

RECURSIVE Pow(_, _)
\* pow(x, n) for a whole exponent
Pow(x, n) == IF n = 0 THEN 1 ELSE x * Pow(x, n - 1)

RECURSIVE FSum(_, _)
\* the sum of f over the indices in set
FSum(f, set) ==
    IF set = {}
    THEN FZero
    ELSE LET x == CHOOSE x \in set : TRUE
         IN  FAdd(f[x], FSum(f, set \ {x}))

\* rdist: the squared distance
rdist(x, y) == (x - y) * (x - y)

\* S: q[i,k] = pow(1.0 + a * pow(dist_squared, b), -1.0)
S(embedding, centroids, a, b) ==
    [i \in DOMAIN embedding |->
        [k \in DOMAIN centroids |->
            Frac(1, 1 + a * Pow(rdist(embedding[i], centroids[k]), b))]]

\* q ** 2 / q.sum(0): the first line of T
T_weight(q) ==
    LET ks == DOMAIN q[CHOOSE i \in DOMAIN q : TRUE]
    IN  [i \in DOMAIN q |->
            [k \in ks |->
                FDiv(FMul(q[i][k], q[i][k]),
                     FSum([j \in DOMAIN q |-> q[j][k]], DOMAIN q))]]

\* T without its second line
T_unnormalized(q) == T_weight(q)

\* T: weight = q ** 2 / q.sum(0); Target = (weight.T / weight.sum(1)).T
T(q) ==
    LET weight == T_weight(q)
    IN  [i \in DOMAIN weight |->
            [k \in DOMAIN weight[i] |->
                FDiv(weight[i][k], FSum(weight[i], DOMAIN weight[i]))]]

\* argmax(1): in each row the first column that holds the largest value
argmax(q) ==
    [i \in DOMAIN q |->
        CHOOSE k \in DOMAIN q[i] :
            /\ \A j \in DOMAIN q[i] : ~FLess(q[i][k], q[i][j])
            /\ \A j \in DOMAIN q[i] : j < k => FLess(q[i][j], q[i][k])]

NoLabels == [i \in Points |-> -1]

\* soft and target before the first refresh
NoMatrix == [i \in Points |-> [k \in Clusters |-> FZero]]

\* the joint pass entered with the embedding of the manifold pass and the
\* centroids of KMeans
AssignKernel(a, b, embedding, centroids) ==
    [kernel    |-> "assign",
     a         |-> a,
     b         |-> b,
     embedding |-> embedding,
     centroids |-> centroids,
     n         |-> 0,
     soft      |-> NoMatrix,
     target    |-> NoMatrix,
     refreshed |-> 0,
     y_pred    |-> NoLabels]

InitAssign ==
    /\ cfg = BaseConfig
    /\ obj = NewObject
    /\ last = NoCall
    /\ ghost = NoHistory
    /\ \E a \in CurveA : \E b \in CurveB :
       \E embedding \in [Points -> Coords] :
       \E centroids \in [Clusters -> Coords] :
           kern = AssignKernel(a, b, embedding, centroids)

\* one epoch of optimize_layout: the refresh when n is a multiple of
\* update_interval, then the steps of the epoch, taken as one move of one
\* point (moved = "embedding") or one centroid (moved = "centroids")
AssignEpoch(moved, index, position) ==
    /\ kern.n < JointEpochs
    /\ index \in DOMAIN kern[moved]
    /\ LET refresh == kern.n % UpdateInterval = 0
           soft    == S(kern.embedding, kern.centroids, kern.a, kern.b)
           stepped == [kern EXCEPT ![moved][index] = position]
       IN  kern' = [stepped EXCEPT
                      !.soft      = IF refresh THEN soft ELSE @,
                      !.target    = IF refresh THEN T(soft) ELSE @,
                      !.refreshed = IF refresh THEN @ + 1 ELSE @,
                      !.n         = @ + 1]
    /\ UNCHANGED <<cfg, obj, last, ghost>>

\* simplicial_set_embedding, lines 1443-1446
AssignLabels ==
    /\ kern.n = JointEpochs
    /\ kern.y_pred = NoLabels
    /\ kern' = [kern EXCEPT
                  !.y_pred = argmax(S(kern.embedding, kern.centroids,
                                      kern.a, kern.b))]
    /\ UNCHANGED <<cfg, obj, last, ghost>>

NextAssign ==
    \/ \E moved \in {"embedding", "centroids"} :
       \E index \in Points \cup Clusters : \E position \in Coords :
           AssignEpoch(moved, index, position)
    \/ AssignLabels

SpecAssign == InitAssign /\ [][NextAssign]_vars

\* C16: for every soft-assignment matrix whose entries are all positive,
\* the target matrix T computed at a refresh has T[i,k] = (q[i,k]^2 /
\* sum_i' q[i',k]) / sum_k' (q[i,k']^2 / sum_i' q[i',k']), so every row of
\* T sums to 1 and every entry lies in [0,1].
C16_TargetRows ==
    kern.kernel = "assign" /\ kern.refreshed >= 1 =>
        LET q == kern.soft
            f == [i \in Points |->
                     [k \in Clusters |->
                         FDiv(FMul(q[i][k], q[i][k]),
                              FSum([j \in Points |-> q[j][k]], Points))]]
        IN  \A i \in Points :
                /\ FSum(kern.target[i], Clusters) = FOne
                /\ \A k \in Clusters :
                       /\ FLess(FZero, q[i][k])
                       /\ kern.target[i][k] =
                              FDiv(f[i][k], FSum(f[i], Clusters))
                       /\ ~FLess(kern.target[i][k], FZero)
                       /\ ~FLess(FOne, kern.target[i][k])

\* a target of the second refresh whose rows differ and are not uniform
C16_Witness ==
    /\ kern.kernel = "assign"
    /\ kern.refreshed = 2
    /\ kern.target[1] # kern.target[2]
    /\ \E k \in Clusters : kern.target[1][k] \notin {FZero, FHalf, FOne}

\* the lowest index of a centroid at minimum squared distance from x
Nearest(x, centroids) ==
    CHOOSE k \in DOMAIN centroids :
        /\ \A j \in DOMAIN centroids :
               rdist(x, centroids[k]) <= rdist(x, centroids[j])
        /\ \A j \in DOMAIN centroids :
               j < k => rdist(x, centroids[j]) > rdist(x, centroids[k])

\* C17: the hard label returned for each point is the arg-max column of
\* the soft-assignment matrix computed from the final embedding and final
\* centroids (their values after the last optimizer epoch), which is the
\* index of a centroid at minimum squared Euclidean distance from the
\* point's final position, the lowest such index on ties.
C17_NearestCentroid ==
    kern.kernel = "assign" /\ kern.y_pred # NoLabels =>
        \A i \in Points :
            /\ kern.y_pred[i] =
                   argmax(S(kern.embedding, kern.centroids,
                            kern.a, kern.b))[i]
            /\ kern.y_pred[i] = Nearest(kern.embedding[i], kern.centroids)

\* C18: an edge whose weight is not positive is never sampled: the
\* schedule gives it a sentinel under which the optimizer processes it in
\* no epoch (no attraction step, no negative samples); in particular, when
\* every weight is zero the schedule is built without error and no edge is
\* ever sampled in any epoch.
C18_SentinelNeverSampled ==
    kern.kernel = "layout" =>
        \A e \in DOMAIN kern.weights :
            kern.weights[e] <= 0 =>
                /\ kern.eps[e] = [num |-> -1, den |-> 1]
                /\ kern.run.hits[e] = 0
                /\ kern.run.negs[e] = 0
                /\ kern.manifold.hits[e] = 0

\* the edges with a period p = num/den >= 1
Periodic == {e \in DOMAIN kern.eps : kern.eps[e].num > 0}

\* the edge has been processed floor((N-1)/p) times in a finished pass of
\* N epochs
ProcessedInPass(hits, e, N) ==
    hits[e] = ((N - 1) * kern.eps[e].den) \div kern.eps[e].num

\* the counters of a pass at any point of it
C19_Counters(r) ==
    \A e \in Periodic :
        /\ r.epoch_hits[e] <= 1
        /\ r.next[e] = (r.hits[e] + 1) * kern.eps[e].num
        /\ e < r.i => r.next[e] > r.n * kern.eps[e].den

\* the counts of a finished pass of N epochs
C19_Counts(hits, N) ==
    \A e \in Periodic :
        /\ ProcessedInPass(hits, e, N)
        /\ \A f \in Periodic :
               kern.weights[e] >= kern.weights[f] => hits[e] >= hits[f]

\* C19: in an optimizer pass of N epochs, every edge with period p =
\* max_weight/weight (p >= 1) is processed at most once per epoch; its
\* next-sample counter starts at p, never decreases, advances by exactly p
\* each time the edge is processed, and is greater than n at the end of
\* every epoch n; hence the edge is processed exactly floor((N-1)/p) times
\* and an edge of higher weight is never processed fewer times than one of
\* lower weight.
C19_PeriodicSampling ==
    /\ [](/\ C19_Counters(kern.run)
          /\ kern.phase = "init_optimize_layout" /\ kern.run.n = 0
                /\ kern.run.i = 1 =>
                    \A e \in Periodic : kern.run.next[e] = kern.eps[e].num
          /\ kern.phase = "KMeans" => C19_Counts(kern.run.hits, kern.n_epochs)
          /\ kern.phase \in {"optimize_layout", "S_argmax", "done"} =>
                C19_Counts(kern.manifold.hits, kern.n_epochs)
          /\ kern.phase \in {"S_argmax", "done"} =>
                C19_Counts(kern.run.hits, JointEpochs))
    /\ [][\A e \in Periodic :
             \/ kern'.run.next[e] = kern.run.next[e]
                    /\ kern'.run.hits[e] = kern.run.hits[e]
             \/ kern'.run.next[e] = kern.run.next[e] + kern.eps[e].num
                    /\ kern'.run.hits[e] = kern.run.hits[e] + 1
             \/ kern.phase = "KMeans" /\ kern'.run = StartPass(kern.eps)]_vars

\* both passes finished on a pruned graph with an edge of fractional
\* period that was processed in each, fewer times than a heavier edge
C19_Witness ==
    /\ kern.phase = "done"
    /\ kern.source = "graph"
    /\ \E e \in Periodic : \E f \in Periodic :
           /\ kern.eps[e].num % kern.eps[e].den # 0
           /\ kern.weights[e] < kern.weights[f]
           /\ kern.manifold.hits[e] >= 1
           /\ kern.run.hits[e] >= 1
           /\ kern.run.hits[e] < kern.run.hits[f]

\* C20: every edge that survives pruning (weight >= max_weight/n_epochs)
\* is processed at least once in the manifold pass and at least once in
\* the joint embedding-clustering pass, for every n_epochs > 10.
C20_SurvivorsProcessed ==
    kern.kernel = "layout" /\ kern.source = "graph" /\ kern.phase = "done" =>
        \A e \in DOMAIN kern.weights :
            /\ kern.weights[e] * kern.n_epochs >= MaxOf(kern.weights)
            /\ kern.manifold.hits[e] >= 1
            /\ kern.run.hits[e] >= 1

\* n - c over q for edge e of the run r, as a whole number: c is next_neg
\* over den * rate and q is num over den * rate
OwedSamples(r, e) ==
    (r.n * kern.eps[e].den * kern.rate - r.next_neg[e]) \div kern.eps[e].num

\* C21: for negative_sample_rate r >= 1, whenever an edge with period p is
\* processed in epoch n, the number of negative samples drawn for it is
\* floor((n - c)/q) >= 0, where c is the edge's negative-sample counter and
\* q = p/r, and afterwards the counter has advanced by exactly that number
\* times q and lies in the interval (n - q, n]; so no more than r negative
\* samples per elapsed period are ever drawn for an edge.
C21_NegativeSamples ==
    /\ [](\A e \in Periodic :
            /\ kern.run.negs[e] * kern.eps[e].num
                   <= kern.rate * kern.run.n * kern.eps[e].den
            /\ kern.run.epoch_hits[e] = 1 =>
                   /\ kern.run.next_neg[e]
                          <= kern.run.n * kern.eps[e].den * kern.rate
                   /\ kern.run.next_neg[e]
                          > kern.run.n * kern.eps[e].den * kern.rate
                                - kern.eps[e].num)
    /\ [][\A e \in Periodic :
             kern'.run.hits[e] = kern.run.hits[e] + 1 =>
                 /\ OwedSamples(kern.run, e) >= 0
                 /\ kern'.run.negs[e]
                        = kern.run.negs[e] + OwedSamples(kern.run, e)
                 /\ kern'.run.next_neg[e]
                        = kern.run.next_neg[e]
                              + OwedSamples(kern.run, e) * kern.eps[e].num]_vars

\* an edge of fractional period just processed for the second time in a
\* pass, with more than twice the rate of negative samples drawn so far
C21_Witness ==
    /\ InPass
    /\ \E e \in Periodic :
           /\ kern.eps[e].num % kern.eps[e].den # 0
           /\ kern.run.epoch_hits[e] = 1
           /\ kern.run.hits[e] = 2
           /\ kern.run.negs[e] > 2 * kern.rate

\* C22: in the manifold pass the learning rate applied during epoch n
\* (counting from 0) is initial * (1 - n/n_epochs): it equals the initial
\* value only in epoch 0, is strictly smaller in every later epoch, and
\* reaches zero at the end of the budget; the clustering-pass rate follows
\* the same law over that pass's own epoch budget.
C22_LinearDecay ==
    kern.kernel = "update" /\ kern.pass # "done" =>
        /\ kern.pass = "init_optimize_layout" =>
               kern.step = kern.learning_rate * (kern.n_epochs - kern.n)
        /\ kern.pass = "optimize_layout" =>
               kern.step = JointEpochs - kern.n

(***************************************************************************)
(* The steps of one epoch of the joint pass, in the order optimize_layout  *)
(* takes them, on points of a small integer grid.  Each step reads the     *)
(* positions it is given and records the displacement it applies, every    *)
(* float as the exact fraction it stands for; which edges an epoch         *)
(* processes is left open here (the schedule is the layout kernel's).      *)
(***************************************************************************)
Axes == 1..BaseConfig.n_components.v
Vectors == [Axes -> Coords]

\* repulsion_strength: validation accepts every value >= 0
Gammas == {0, 1}

RECURSIVE SumTo(_, _)
\* f[1] + ... + f[n]
SumTo(f, n) == IF n = 0 THEN 0 ELSE f[n] + SumTo(f, n - 1)

\* rdist on vectors: the sum of the squared differences
rdist_sum(x, y) == SumTo([d \in DOMAIN x |-> rdist(x[d], y[d])], Len(x))

FNeg(x) == Frac(0 - x.num, x.den)

\* clip and clip_clust on floats
clip_float(val, bound) ==
    IF FLess(Frac(bound, 1), val) THEN Frac(bound, 1)
    ELSE IF FLess(val, Frac(0 - bound, 1)) THEN Frac(0 - bound, 1)
    ELSE val

\* a * b * pow(d, b - 1.0) over a * pow(d, b) + 1.0, doubled, for b = 1:
\* the size of the attraction, cluster and centroid coefficients
kernel_coeff(dist_squared, a) ==
    IF FLess(FZero, dist_squared)
    THEN FDiv(Frac(2 * a, 1), FAdd(FMul(Frac(a, 1), dist_squared), FOne))
    ELSE FZero

\* the squared distance of two grid positions as a float
Dist(x, y) == Frac(rdist_sum(x, y), 1)

NoMove == [d \in Axes |-> FZero]

\* the attraction step on current: grad_d = clip(grad_coeff * (current[d] -
\* other[d])), current[d] += grad_d * rate
attraction_step(current, other, a, rate) ==
    LET grad_coeff == FNeg(kernel_coeff(Dist(current, other), a))
    IN  [d \in Axes |->
            FMul(clip_float(FMul(grad_coeff,
                                 Frac(current[d] - other[d], 1)), ClipBound),
                 rate)]

\* one negative sample: skipped when the pair coincides and j = k; the
\* clipped gradient when grad_coeff > 0.0, "grad_d = 4.0" otherwise
negative_step(current, other, j, k, a, gamma, rate) ==
    LET dist_squared == rdist_sum(current, other)
        grad_coeff ==
            IF dist_squared > 0
            THEN Frac(2 * gamma * 1000,
                      (1 + 1000 * dist_squared) * (a * dist_squared + 1))
            ELSE FZero
    IN  IF dist_squared = 0 /\ j = k
        THEN [skipped |-> TRUE, fixed |-> FALSE, move |-> NoMove]
        ELSE [skipped |-> FALSE,
              fixed   |-> ~FLess(FZero, grad_coeff),
              move    |->
                  [d \in Axes |->
                      FMul(IF FLess(FZero, grad_coeff)
                           THEN clip_float(
                                    FMul(grad_coeff,
                                         Frac(current[d] - other[d], 1)),
                                    ClipBound)
                           ELSE Frac(ClipBound, 1),
                           rate)]]

\* the cluster step with the weight of the target: grad_coeff multiplied by
\* target[j, k]
cluster_step_target(current, centroid, a, weight) ==
    [d \in Axes |->
        FMul(FMul(clip_float(kernel_coeff(Dist(current, centroid), a),
                             ClipClustBound), weight),
             Frac(1, ClusterStepInverse))]

\* the cluster step: grad_coeff = clip_clust(grad_coeff); current +=
\* grad_coeff * beta * etaKL * 1e-5, the same number on every axis ("*
\* target[j, k]" is in a comment)
cluster_step(current, centroid, a, weight) ==
    [d \in Axes |->
        FMul(clip_float(kernel_coeff(Dist(current, centroid), a),
                        ClipClustBound),
             Frac(1, ClusterStepInverse))]

\* the term of one point without the division by the number of points
centroid_term_unscaled(dist_squared, a, rows) ==
    FDiv(clip_float(FNeg(kernel_coeff(dist_squared, a)), ClipBound),
         Frac(CentroidStepInverse, 1))

\* the term of one point in the centroid pass: (clip(grad_coeff) * etaKL) /
\* (nn_sample * 100)
centroid_term(dist_squared, a, rows) ==
    FDiv(clip_float(FNeg(kernel_coeff(dist_squared, a)), ClipBound),
         Frac(rows * CentroidStepInverse, 1))

\* centroid += term: the same number on every axis
centroid_step(current, centroid, a, rows) ==
    [d \in Axes |-> centroid_term(Dist(current, centroid), a, rows)]

\* the weights a refresh can leave in an entry of target
TargetWeights == {Frac(1, 4), FHalf, FOne}

NoStep == [kind |-> "none"]

\* a pass entered with the rate of its first epoch, kept as its numerator
\* over the epochs of the pass
ForceKernel(pass, a, gamma) ==
    [kernel |-> "force",
     pass   |-> pass,
     a      |-> a,
     gamma  |-> gamma,
     n      |-> 0,
     rate   |-> StartStep(pass, BaseConfig.learning_rate,
                          MinEpochsExclusive + 1),
     step   |-> NoStep]

InitForce ==
    /\ cfg = BaseConfig
    /\ obj = NewObject
    /\ last = NoCall
    /\ ghost = NoHistory
    /\ \E pass \in EpochSteps : \E a \in CurveA : \E gamma \in Gammas :
           kern = ForceKernel(pass, a, gamma)

ForceEpochs == PassEpochs(kern.pass, MinEpochsExclusive + 1)

ForceRate == Frac(kern.rate, ForceEpochs)

\* lines 996-1024 and 1136-1166: the attraction step of an edge between two
\* different points
ForceAttraction(current, other) ==
    /\ kern.step = NoStep
    /\ kern' = [kern EXCEPT
                  !.step = [kind    |-> "attraction",
                            current |-> current,
                            other   |-> other,
                            move    |-> attraction_step(current, other,
                                                        kern.a, ForceRate)]]
    /\ UNCHANGED <<cfg, obj, last, ghost>>

\* lines 1035-1063 and 1177-1204: one negative sample k for the point j;
\* a point sampled against itself is at its own position
ForceNegative(current, other, j, k) ==
    /\ kern.step = NoStep
    /\ j = k => other = current
    /\ kern' = [kern EXCEPT
                  !.step = [kind    |-> "negative",
                            current |-> current,
                            other   |-> other,
                            same    |-> j = k]
                           @@ negative_step(current, other, j, k, kern.a,
                                            kern.gamma, ForceRate)]
    /\ UNCHANGED <<cfg, obj, last, ghost>>

\* lines 1206-1222: the cluster step of a point for one centroid, with the
\* entry of target for the pair
ForceCluster(current, centroid, weight) ==
    /\ kern.step = NoStep
    /\ kern.pass = "optimize_layout"
    /\ kern' = [kern EXCEPT
                  !.step = [kind     |-> "cluster",
                            current  |-> current,
                            centroid |-> centroid,
                            weight   |-> weight,
                            move     |-> cluster_step(current, centroid,
                                                      kern.a, weight)]]
    /\ UNCHANGED <<cfg, obj, last, ghost>>

\* lines 1229-1243: the term of one point in the centroid pass, with the
\* entry of target for the pair
ForceCentroid(current, centroid, weight, rows) ==
    /\ kern.step = NoStep
    /\ kern.pass = "optimize_layout"
    /\ kern' = [kern EXCEPT
                  !.step = [kind     |-> "centroid",
                            current  |-> current,
                            centroid |-> centroid,
                            weight   |-> weight,
                            rows     |-> rows,
                            move     |-> centroid_step(current, centroid,
                                                       kern.a, rows)]]
    /\ UNCHANGED <<cfg, obj, last, ghost>>

\* the end of an epoch: the rate decays, the next epoch starts
ForceEpoch ==
    /\ kern.n + 1 < ForceEpochs
    /\ kern' = [kern EXCEPT
                  !.n = @ + 1,
                  !.rate = DecayedStep(kern.pass, BaseConfig.learning_rate,
                                       MinEpochsExclusive + 1, kern.n),
                  !.step = NoStep]
    /\ UNCHANGED <<cfg, obj, last, ghost>>

NextForce ==
    \/ \E current \in Vectors : \E other \in Vectors :
           ForceAttraction(current, other)
    \/ \E current \in Vectors : \E other \in Vectors :
       \E j \in Points : \E k \in Points :
           ForceNegative(current, other, j, k)
    \/ \E current \in Vectors : \E centroid \in Vectors :
       \E weight \in TargetWeights :
           ForceCluster(current, centroid, weight)
    \/ \E current \in Vectors : \E centroid \in Vectors :
       \E weight \in TargetWeights : \E rows \in 1..MaxRows :
           ForceCentroid(current, centroid, weight, rows)
    \/ ForceEpoch

SpecForce == InitForce /\ [][NextForce]_vars

\* the fixed nudge of a negative sample: 4.0 times the rate on every axis
FixedNudge == [d \in Axes |-> FMul(Frac(ClipBound, 1), ForceRate)]

\* C23: at squared distance zero the attraction, cluster and centroid steps
\* move nothing; a negative sample is skipped exactly when the pair
\* coincides with j = k, gets the fixed nudge of 4.0 times the rate on every
\* axis exactly when the pair coincides with j # k, and never gets the fixed
\* nudge at non-zero distance, for every repulsion_strength >= 0
C23_ZeroDistanceSteps ==
    (kern.kernel = "force" /\ kern.step # NoStep) =>
        LET step == kern.step
            dist_squared ==
                rdist_sum(step.current,
                          IF step.kind \in {"cluster", "centroid"}
                          THEN step.centroid ELSE step.other)
        IN  /\ (step.kind # "negative" /\ dist_squared = 0)
                   => step.move = NoMove
            /\ step.kind = "negative" =>
                   /\ step.skipped <=> (dist_squared = 0 /\ step.same)
                   /\ step.fixed <=> (dist_squared = 0 /\ ~step.same)
                   /\ step.fixed => step.move = FixedNudge
                   /\ step.skipped => step.move = NoMove

\* the term of one point in the centroid pass with the weight of the
\* target: grad_coeff multiplied by target[i, k]
centroid_step_target(current, centroid, a, weight, rows) ==
    [d \in Axes |->
        FDiv(clip_float(FMul(FNeg(kernel_coeff(Dist(current, centroid), a)),
                             weight),
                        ClipBound),
             Frac(rows * CentroidStepInverse, 1))]

\* C24: in the joint pass the cluster step of a point for centroid k and
\* the centroid-k step driven by a point carry the weight target[point, k]
\* of the most recent refresh
C24_TargetWeighted ==
    (kern.kernel = "force" /\ kern.step # NoStep) =>
        LET step == kern.step
        IN  /\ step.kind = "cluster" =>
                   step.move = cluster_step_target(step.current,
                                   step.centroid, kern.a, step.weight)
            /\ step.kind = "centroid" =>
                   step.move = centroid_step_target(step.current,
                                   step.centroid, kern.a, step.weight,
                                   step.rows)

Sign(x) == IF x > 0 THEN 1 ELSE IF x < 0 THEN 0 - 1 ELSE 0

\* C25: the cluster step of a point for centroid k is directed along
\* centroid_k - point: on every axis its sign is the sign of
\* centroid_k[d] - point[d], and it is zero where the two are equal
C25_TowardsCentroid ==
    (kern.kernel = "force" /\ kern.step # NoStep
                           /\ kern.step.kind = "cluster") =>
        \A d \in Axes :
            Sign(kern.step.move[d].num)
                = Sign(kern.step.centroid[d] - kern.step.current[d])

(***************************************************************************)
(* The epochs of the joint pass: the refresh of the target, the loop over  *)
(* the edges, the centroid pass and the update of the rate, one after the  *)
(* other in a single thread (every loop of optimize_layout is a plain       *)
(* range loop).  The squared distance of a point to a centroid is an       *)
(* input of each term of the centroid pass.                                *)
(***************************************************************************)
\* a refresh in every epoch
refresh_due_always(n) == TRUE

\* line 1131: if n % update_interval == 0
refresh_due(n) == n % UpdateInterval = 0

\* a and b come from the constructor or from find_ab_params, unvalidated
SharpCurveA == {0, 1, 8}

\* squared distances of a point to a centroid
Distances == {FZero, Frac(1, 4), FOne, Frac(2, 1)}

JointKernel(a, rows) ==
    [kernel    |-> "joint",
     a         |-> a,
     rows      |-> rows,
     n         |-> 0,
     pc        |-> "refresh",
     i         |-> 1,          \* the edge the loop is at
     k         |-> 0,          \* the centroid the pass is at
     point     |-> 1,          \* the point the pass is at
     total     |-> FZero,      \* the change of centroid k in this epoch
     etaCE     |-> StartStep("optimize_layout", BaseConfig.learning_rate,
                             MinEpochsExclusive + 1),
     refreshes |-> {},         \* the epochs that recomputed the target
     order     |-> <<>>,       \* what this epoch has done so far
     edges     |-> 0,          \* the edges this epoch has processed
     terms     |-> 0]          \* the centroid terms this epoch has applied

InitJoint ==
    /\ cfg = BaseConfig
    /\ obj = NewObject
    /\ last = NoCall
    /\ ghost = NoHistory
    /\ \E a \in SharpCurveA : \E rows \in 1..MaxRows :
           kern = JointKernel(a, rows)

\* lines 1131-1133: the target is recomputed when the epoch is due
JointRefresh ==
    /\ kern.pc = "refresh"
    /\ kern' = IF refresh_due(kern.n)
               THEN [kern EXCEPT !.pc = "edges",
                                 !.refreshes = @ \cup {kern.n},
                                 !.order = Append(@, "refresh")]
               ELSE [kern EXCEPT !.pc = "edges"]
    /\ UNCHANGED <<cfg, obj, last, ghost>>

\* lines 1134-1227: one edge of the loop, processed when its counter is due
JointEdge(due) ==
    /\ kern.pc = "edges"
    /\ kern.i <= NumEdges
    /\ LET done == IF due
                   THEN [kern EXCEPT !.edges = @ + 1,
                                     !.order = Append(@, "edge")]
                   ELSE kern
       IN  kern' = [done EXCEPT !.i = @ + 1,
                                !.pc = IF kern.i = NumEdges
                                       THEN "centroids" ELSE "edges"]
    /\ UNCHANGED <<cfg, obj, last, ghost>>

\* lines 1229-1243: the term of one point for the centroid k
JointCentroid(dist_squared) ==
    /\ kern.pc = "centroids"
    /\ LET before == IF kern.point = 1 THEN FZero ELSE kern.total
           last_point == kern.point = kern.rows
           last_centroid == kern.k = BaseConfig.n_clusters.v - 1
       IN  kern' = [kern EXCEPT
                      !.total = FAdd(before,
                                     centroid_term(dist_squared, kern.a,
                                                   kern.rows)),
                      !.terms = @ + 1,
                      !.order = Append(@, "centroid"),
                      !.point = IF last_point THEN 1 ELSE @ + 1,
                      !.k = IF last_point /\ ~last_centroid THEN @ + 1 ELSE @,
                      !.pc = IF last_point /\ last_centroid
                             THEN "rate" ELSE "centroids"]
    /\ UNCHANGED <<cfg, obj, last, ghost>>

\* lines 1253-1255 and the head of the loop: the rate, then the next epoch
JointRate ==
    /\ kern.pc = "rate"
    /\ kern' = [kern EXCEPT
                  !.etaCE = DecayedStep("optimize_layout",
                                        BaseConfig.learning_rate,
                                        MinEpochsExclusive + 1, kern.n),
                  !.n = @ + 1,
                  !.pc = IF kern.n + 1 < JointEpochs THEN "refresh" ELSE "done",
                  !.i = IF kern.n + 1 < JointEpochs THEN 1 ELSE @,
                  !.k = IF kern.n + 1 < JointEpochs THEN 0 ELSE @,
                  !.order = IF kern.n + 1 < JointEpochs THEN <<>>
                            ELSE Append(@, "rate"),
                  !.edges = IF kern.n + 1 < JointEpochs THEN 0 ELSE @,
                  !.terms = IF kern.n + 1 < JointEpochs THEN 0 ELSE @]
    /\ UNCHANGED <<cfg, obj, last, ghost>>

NextJoint ==
    \/ JointRefresh
    \/ \E due \in BOOLEAN : JointEdge(due)
    \/ \E dist_squared \in Distances : JointCentroid(dist_squared)
    \/ JointRate

SpecJoint == InitJoint /\ [][NextJoint]_vars

FAbs(x) == IF x.num < 0 THEN FNeg(x) ELSE x

FLessEq(x, y) == ~FLess(y, x)

\* the largest change of a centroid coordinate in one epoch: 4.0 / 100
CentroidBound == Frac(ClipBound, CentroidStepInverse)

TermsPerPass == BaseConfig.n_clusters.v * kern.rows

\* C26: in every epoch of the joint pass each centroid is updated in one
\* centroid pass that runs after all edges of the epoch have been
\* processed, and the total change of a centroid coordinate within one
\* epoch is at most 4.0/100 in magnitude for every number of points
C26_CentroidPass ==
    kern.kernel = "joint" =>
        /\ FLessEq(FAbs(kern.total), CentroidBound)
        /\ kern.terms > 0 => kern.i = NumEdges + 1
        /\ kern.terms <= TermsPerPass
        /\ kern.pc \in {"rate", "done"} => kern.terms = TermsPerPass
        /\ \A p \in 1..Len(kern.order) : \A q \in p..Len(kern.order) :
               kern.order[p] = "centroid" => kern.order[q] # "edge"

\* the last centroid of an epoch with edges has moved by the full 0.04
\* under the largest number of points
C26_Witness ==
    /\ kern.kernel = "joint"
    /\ kern.pc = "rate"
    /\ kern.rows = MaxRows
    /\ kern.edges > 0
    /\ FAbs(kern.total) = CentroidBound

\* the place of a step in an epoch
Rank(tag) ==
    CASE tag = "refresh" -> 1
      [] tag = "edge" -> 2
      [] tag = "centroid" -> 3
      [] tag = "rate" -> 4

\* the epochs up to n whose number is a multiple of update_interval
DueUpTo(n) == {m \in 0..n : m % UpdateInterval = 0}

C27_Order ==
    kern.kernel = "joint" =>
        /\ \A p \in 1..Len(kern.order) : \A q \in p..Len(kern.order) :
               Rank(kern.order[p]) <= Rank(kern.order[q])
        /\ \A p \in 2..Len(kern.order) : kern.order[p] # "refresh"
        /\ kern.refreshes =
               IF kern.pc = "refresh" THEN DueUpTo(kern.n - 1)
               ELSE IF kern.pc = "done" THEN DueUpTo(JointEpochs - 1)
               ELSE DueUpTo(kern.n)
        /\ kern.pc = "done" => kern.refreshes = {0, UpdateInterval}

C27_Steps ==
    kern.kernel = "joint" =>
        \* the next epoch starts after the whole centroid pass
        /\ kern'.n # kern.n
               => /\ kern.pc = "rate"
                  /\ kern.terms = TermsPerPass
                  /\ kern.i = NumEdges + 1
        \* an edge is processed in an epoch that has applied no centroid term
        /\ kern'.edges > kern.edges => kern.terms = 0
        \* a refresh runs before any edge or centroid update of its epoch
        /\ kern'.refreshes # kern.refreshes
               => /\ kern.edges = 0 /\ kern.terms = 0
                  /\ kern'.edges = 0 /\ kern'.terms = 0
        \* every term is added to what the terms before it have left
        /\ (kern'.terms = kern.terms + 1 /\ kern.point > 1)
               => \E dist_squared \in Distances :
                      kern'.total = FAdd(kern.total,
                                         centroid_term(dist_squared, kern.a,
                                                       kern.rows))

\* C27: every epoch n of the joint pass runs the target refresh (only when
\* n is a multiple of update_interval = 5: at epochs 0 and 5), then the
\* edge updates of n, then the centroid pass, then the rate update; no edge
\* update of epoch n + 1 starts before the centroid pass of n is complete,
\* no refresh runs while the updates of an epoch are in progress, and no
\* update is lost to a concurrent write
C27_EpochOrder == [](C27_Order) /\ [][C27_Steps]_vars

\* the pass has ended after refreshes at epochs 0 and 5 only, its last
\* epoch having processed an edge before its centroid pass and rate update
C27_Witness ==
    /\ kern.kernel = "joint"
    /\ kern.pc = "done"
    /\ kern.n = JointEpochs
    /\ kern.refreshes = {0, UpdateInterval}
    /\ kern.edges > 0
    /\ kern.order[Len(kern.order)] = "rate"
    /\ kern.order[1] = "edge"

\* C28: after the categorical fusion, for every labelling and every
\* target_weight in [0, 1], every point that had an edge before the fusion
\* has an edge of weight exactly 1 in the resulting graph
C28_FullConfidenceEdge ==
    (kern.kernel = "graph" /\ kern.phase = "graph_"
                           /\ kern.fusion = "categorical") =>
        \A i \in kern.had : \E j \in Nodes : kern.graph[<<i, j>>] = FOne

\* the fitted state transform relies on
FittedState(o) ==
    <<o.raw_data, o.embedding, o.input_hash, o.n_neighbors, o.graph>>

\* C29: when a fit call on an already fitted model fails with an error, the
\* fitted state transform relies on (raw data, embedding, input hash,
\* clamped neighbour count, graph) is what it was before the call, so raw
\* data, embedding and hash describe the same fitted dataset
C29_FailedFitFrame ==
    (last.op = "fit" /\ last.end # "return" /\ ghost.ok_data # NoData) =>
        /\ last.unchanged
        /\ Hash(obj.raw_data) = obj.embedding.src
        /\ Hash(obj.raw_data) = obj.input_hash

(***************************************************************************)
(* The rho of one row of smooth_knn_dist.  A row holds the distances of a  *)
(* point to its neighbours in ascending order, as the neighbour search     *)
(* returns them; the function is compiled without bounds checking, so a    *)
(* read outside an array yields whatever the memory holds.                 *)
(***************************************************************************)
\* the neighbours of a row and the largest distance
RhoNeighbors == 3
MaxDist == 2

SmoothKTolerance == Frac(1, 100000)

\* the rows of distances: ascending, zeros first
DistanceRows ==
    {row \in [1..RhoNeighbors -> 0..MaxDist] :
        \A p \in 1..(RhoNeighbors - 1) : row[p] <= row[p + 1]}

\* local_connectivity of the constructor, whole and fractional
LocalConnectivities ==
    {Frac(h, 2) : h \in 0..(2 * RhoNeighbors + 2)}

\* what a read outside the array can yield
Garbage == {"finite", "nan"}

\* transform, lines 2278-2280: max(0, self.local_connectivity - 1.0); fit
\* passes self.local_connectivity as it is
adjusted_local_connectivity(caller, local_connectivity) ==
    IF caller = "transform"
    THEN LET less == FSub(local_connectivity, FOne)
         IN  IF FLess(less, FZero) THEN FZero ELSE less
    ELSE local_connectivity

\* ith_distances[ith_distances > 0.0]
NonZero(row) == SelectSeq(row, LAMBDA x : x > 0)

\* lines 122-138, with the positions of non_zero_dists it reads (counted
\* from 0, as the code does)
smooth_knn_rho(row, local_connectivity, garbage) ==
    LET non_zero_dists == NonZero(row)
        size == Len(non_zero_dists)
        index == local_connectivity.num \div local_connectivity.den
        interpolation == FSub(local_connectivity, Frac(index, 1))
        At(pos) == Frac(non_zero_dists[pos + 1], 1)
    IN  IF ~FLess(Frac(size, 1), local_connectivity)
        THEN IF index > 0
             THEN IF FLess(SmoothKTolerance, interpolation)
                  THEN [reads |-> {index - 1, index},
                        nan   |-> FALSE,
                        rho   |-> FAdd(At(index - 1),
                                       FMul(interpolation,
                                            FSub(At(index),
                                                 At(index - 1))))]
                  ELSE [reads |-> {index - 1}, nan |-> FALSE,
                        rho   |-> At(index - 1)]
             ELSE IF size > 0
                  THEN [reads |-> {0}, nan |-> FALSE,
                        rho   |-> FMul(interpolation, At(0))]
                  \* 0.0 times what the memory holds: 0.0, or nan when it
                  \* is not a finite number
                  ELSE [reads |-> {0}, nan |-> garbage = "nan",
                        rho   |-> FZero]
        ELSE IF size > 0
             THEN [reads |-> 0..(size - 1), nan |-> FALSE,
                   rho   |-> Frac(non_zero_dists[size], 1)]
             ELSE [reads |-> {}, nan |-> FALSE, rho |-> FZero]

\* line 112: rho = np.zeros(...)
NoRho == [reads |-> {}, nan |-> FALSE, rho |-> FZero, done |-> FALSE]

RhoKernel(caller, row, local_connectivity) ==
    [kernel |-> "rho",
     caller |-> caller,
     row    |-> row,
     local_connectivity |->
         adjusted_local_connectivity(caller, local_connectivity),
     out    |-> NoRho]

InitRho ==
    /\ cfg = BaseConfig
    /\ obj = NewObject
    /\ last = NoCall
    /\ ghost = NoHistory
    /\ \E caller \in {"fit", "transform"} :
       \E row \in DistanceRows :
       \E local_connectivity \in LocalConnectivities :
           kern = RhoKernel(caller, row, local_connectivity)

\* one iteration of the loop over the rows, up to the search for sigma
RhoRow(garbage) ==
    /\ ~kern.out.done
    /\ kern' = [kern EXCEPT
                  !.out = smooth_knn_rho(kern.row, kern.local_connectivity,
                                         garbage) @@ [done |-> TRUE]]
    /\ UNCHANGED <<cfg, obj, last, ghost>>

NextRho == \E garbage \in Garbage : RhoRow(garbage)

SpecRho == InitRho /\ [][NextRho]_vars

\* C30: for every row of distances (a row of zeros included) and every
\* local_connectivity >= 0 (0 and fractional values included), the rho of
\* smooth_knn_dist reads only positions that exist among the non-zero
\* distances of the row, and 0 <= rho <= the largest distance of the row,
\* with rho = 0 when the row has no non-zero distance
C30_RhoReads ==
    (kern.kernel = "rho" /\ kern.out.done) =>
        LET size == Len(NonZero(kern.row))
        IN  /\ kern.out.reads \subseteq 0..(size - 1)
            /\ ~kern.out.nan
            /\ FLessEq(FZero, kern.out.rho)
            /\ FLessEq(kern.out.rho, Frac(kern.row[RhoNeighbors], 1))
            /\ size = 0 => kern.out.rho = FZero
====
